---------------------------- MODULE Spec2Model ----------------------------
(***************************************************************************)
(* A model of the Inkposter integration (custom_components/ha_inkposter):  *)
(*   - ble.py: status decoding, command framing and the two local-link     *)
(*     operations async_send_command and async_read_status;                *)
(*   - api_client.py: the cloud session manager (token load / refresh /    *)
(*     login under the refresh lock) and the authenticated request with    *)
(*     its single 401-triggered recovery.                                  *)
(* Every await of the source is one step of the model; what runs between   *)
(* two awaits is part of the step that follows the first await.            *)
(***************************************************************************)
EXTENDS Integers, Sequences, FiniteSets, TLC

VARIABLES
    ble,        \* per local-link operation: position, arguments, locals, history
    bleOpen,    \* connections currently open on the device: pairs <<p, client>>
    bleActive,  \* the operation slots that may start an operation
    tok,        \* InkposterApiClient: _device_id, _access_token, _refresh_token, _expires_at
    lock,       \* InkposterApiClient._refresh_lock: 0 when free, else the holding task
    store,      \* the persisted token record (Store), Nil when absent
    saves,      \* _save_tokens tasks created and not yet run
    now,        \* time.time(), in seconds
    srvSeq,     \* number of auth responses the cloud has issued (names the tokens)
    faults,     \* the malformed answers the cloud may give in this run
    api,        \* per task: the call in progress, its position, locals and history
    cloud,      \* InkposterCloudCoordinator: data, its Store, the tick in progress
    local,      \* InkposterBleCoordinator: _last_ble_status, the host, the poll in progress
    upl,        \* one async_upload_and_poll call: position, locals, history
    calc,       \* one application of a pure function: its name, argument and result
    svc         \* one upload-image service call: its position and what it has done

vars == <<ble, bleOpen, bleActive, tok, lock, store, saves, now, srvSeq, faults, api,
          cloud, local, upl, calc, svc>>

bleVars == <<ble, bleOpen, bleActive>>
apiVars == <<tok, lock, store, saves, now, srvSeq, faults, api>>
coordVars == <<cloud, local, upl, calc, svc>>

None == "None"

\* Optional values that are not strings: Nil is Python's None, Some(x) a value.
Nil == <<>>
Some(x) == <<x>>
Val(o) == o[1]

(***************************************************************************)
(* const.py                                                                *)
(***************************************************************************)
BLE_STATUS_LEN == 28
BLE_HEADER_SHORT == 1
BLE_DEFAULT_SKEY_HEX == "b716c1d9807b857fcb26f26fab215c6b"
BLE_ACTION_REBOOT == 3
BLE_ACTION_FETCH == 42
REFRESH_BUFFER_SECS == 3600

STATUS_FLAG_GENERAL_ERROR == 1
STATUS_FLAG_BATTERY_LOW == 2
STATUS_FLAG_BATTERY_CHARGING == 4
STATUS_FLAG_BATTERY_CHARGING_LOW == 8
STATUS_FLAG_BATTERY_FULL == 16
STATUS_FLAG_SECURE_MODE == 64
STATUS_FLAG_USER_INTERACTION_REQUIRED == 128
STATUS_FLAG_WIFI_CONNECTION_ERROR == 256
STATUS_FLAG_WIFI_LINK_OK == 512
STATUS_FLAG_SERVER_CONNECTION_ERROR == 1024
STATUS_FLAG_SERVER_SOCKET_LINK_OK == 2048
STATUS_FLAG_SYNC_ERROR == 4096
STATUS_FLAG_FW_UPDATE_ERROR == 8192
STATUS_FLAG_FW_UPDATE_READY == 65536
STATUS_FLAG_LAUNCHER_CMD_READY == 131072
STATUS_FLAG_DATETIME_SYNCED == 262144

(***************************************************************************)
(* ble.py: status decoding                                                 *)
(***************************************************************************)

\* struct.unpack_from(">H", raw, off) (a slip: the high byte first)
U16BE(raw, off) == 256 * raw[off + 1] + raw[off + 2]

\* struct.unpack_from("<H", raw, off): off is the 0-based byte offset.
U16LE(raw, off) == raw[off + 1] + 256 * raw[off + 2]

\* struct.unpack_from("<I", raw, off)
U32LE(raw, off) ==
    raw[off + 1] + 256 * raw[off + 2] + 65536 * raw[off + 3] + 16777216 * raw[off + 4]

\* model_raw.split(b"\x00", 1)[0]: the bytes before the first NUL.
RECURSIVE UntilNul(_)
UntilNul(bs) ==
    IF bs = <<>> \/ Head(bs) = 0 THEN <<>> ELSE <<Head(bs)>> \o UntilNul(Tail(bs))

REPLACEMENT == 65533

IsCont(b) == b >= 128 /\ b <= 191

\* The range the second byte of a multi-byte sequence led by b0 must lie in.
SecondLo(b0) == IF b0 = 224 THEN 160 ELSE IF b0 = 240 THEN 144 ELSE 128
SecondHi(b0) == IF b0 = 237 THEN 159 ELSE IF b0 = 244 THEN 143 ELSE 191

\* Number of bytes of the sequence a lead byte announces (0: not a lead byte).
SeqLen(b0) ==
    IF b0 < 128 THEN 1
    ELSE IF b0 >= 194 /\ b0 <= 223 THEN 2
    ELSE IF b0 >= 224 /\ b0 <= 239 THEN 3
    ELSE IF b0 >= 240 /\ b0 <= 244 THEN 4
    ELSE 0

\* How many bytes after the lead byte continue the sequence validly (at most need).
RECURSIVE ValidTail(_, _, _, _)
ValidTail(bs, i, need, b0) ==
    IF need = 0 \/ i > Len(bs) THEN 0
    ELSE LET ok == IF i = 2 THEN bs[i] >= SecondLo(b0) /\ bs[i] <= SecondHi(b0)
                             ELSE IsCont(bs[i])
         IN IF ok THEN 1 + ValidTail(bs, i + 1, need - 1, b0) ELSE 0

CodePoint(bs, n) ==
    IF n = 1 THEN bs[1]
    ELSE IF n = 2 THEN (bs[1] % 32) * 64 + (bs[2] % 64)
    ELSE IF n = 3 THEN (bs[1] % 16) * 4096 + (bs[2] % 64) * 64 + (bs[3] % 64)
    ELSE (bs[1] % 8) * 262144 + (bs[2] % 64) * 4096 + (bs[3] % 64) * 64 + (bs[4] % 64)

\* bytes.decode("utf-8", errors="replace"): a sequence of code points; every
\* maximal invalid subpart becomes one U+FFFD.
RECURSIVE Utf8DecodeReplace(_)
Utf8DecodeReplace(bs) ==
    IF bs = <<>> THEN <<>>
    ELSE LET n == SeqLen(Head(bs))
         IN IF n = 0 THEN <<REPLACEMENT>> \o Utf8DecodeReplace(Tail(bs))
            ELSE LET got == ValidTail(bs, 2, n - 1, Head(bs))
                 IN IF got = n - 1
                    THEN <<CodePoint(bs, n)>> \o Utf8DecodeReplace(SubSeq(bs, n + 1, Len(bs)))
                    ELSE <<REPLACEMENT>> \o Utf8DecodeReplace(SubSeq(bs, got + 2, Len(bs)))

BleStatusDecoded(raw) ==
    LET fw_packed == U32LE(raw, 16)
    IN [company_id      |-> U16LE(raw, 0),
        msg_seq         |-> U16LE(raw, 2),
        version         |-> raw[5],
        capacity        |-> raw[6],
        wifi_quality    |-> raw[7],
        key_seq         |-> raw[8],
        status_original |-> U32LE(raw, 8),
        jobs            |-> U32LE(raw, 12),
        fw_major        |-> (fw_packed \div 16777216) % 256,
        fw_minor        |-> (fw_packed \div 65536) % 256,
        fw_build        |-> fw_packed % 65536,
        model_str       |-> Utf8DecodeReplace(UntilNul(SubSeq(raw, 21, 28)))]

\* if len(raw) != BLE_STATUS_LEN (a slip: longer payloads are refused too)
TooShortOrLong(raw) == Len(raw) # BLE_STATUS_LEN

\* if len(raw) < BLE_STATUS_LEN
TooShort(raw) == Len(raw) < BLE_STATUS_LEN

\* decode_status: "ValueError" when the payload is shorter than 28 bytes.
decode_status(raw) ==
    IF TooShort(raw) THEN "ValueError" ELSE BleStatusDecoded(raw)

\* status_original >= mask (a slip: a comparison where the code masks)
MaskReached(status_original, mask) == status_original >= mask

\* (status_original & mask) != 0, for a mask that is one bit.
BitSet(status_original, mask) == (status_original \div mask) % 2 = 1

\* A slip: the two Wi-Fi flags read each other's bit.
ParseStatusFlagsWifiSwapped(status_original) ==
    [general_error             |-> BitSet(status_original, STATUS_FLAG_GENERAL_ERROR),
     battery_low               |-> BitSet(status_original, STATUS_FLAG_BATTERY_LOW),
     battery_charging          |-> BitSet(status_original, STATUS_FLAG_BATTERY_CHARGING),
     battery_charging_low      |-> BitSet(status_original, STATUS_FLAG_BATTERY_CHARGING_LOW),
     battery_full              |-> BitSet(status_original, STATUS_FLAG_BATTERY_FULL),
     secure_mode               |-> BitSet(status_original, STATUS_FLAG_SECURE_MODE),
     user_interaction_required |-> BitSet(status_original, STATUS_FLAG_USER_INTERACTION_REQUIRED),
     wifi_connection_error     |-> BitSet(status_original, STATUS_FLAG_WIFI_LINK_OK),
     wifi_link_ok              |-> BitSet(status_original, STATUS_FLAG_WIFI_CONNECTION_ERROR),
     server_connection_error   |-> BitSet(status_original, STATUS_FLAG_SERVER_CONNECTION_ERROR),
     server_socket_link_ok     |-> BitSet(status_original, STATUS_FLAG_SERVER_SOCKET_LINK_OK),
     sync_error                |-> BitSet(status_original, STATUS_FLAG_SYNC_ERROR),
     fw_update_error           |-> BitSet(status_original, STATUS_FLAG_FW_UPDATE_ERROR),
     fw_update_ready           |-> BitSet(status_original, STATUS_FLAG_FW_UPDATE_READY),
     launcher_cmd_ready        |-> BitSet(status_original, STATUS_FLAG_LAUNCHER_CMD_READY),
     datetime_synced           |-> BitSet(status_original, STATUS_FLAG_DATETIME_SYNCED)]

parse_status_flags(status_original) ==
    [general_error             |-> BitSet(status_original, STATUS_FLAG_GENERAL_ERROR),
     battery_low               |-> BitSet(status_original, STATUS_FLAG_BATTERY_LOW),
     battery_charging          |-> BitSet(status_original, STATUS_FLAG_BATTERY_CHARGING),
     battery_charging_low      |-> BitSet(status_original, STATUS_FLAG_BATTERY_CHARGING_LOW),
     battery_full              |-> BitSet(status_original, STATUS_FLAG_BATTERY_FULL),
     secure_mode               |-> BitSet(status_original, STATUS_FLAG_SECURE_MODE),
     user_interaction_required |-> BitSet(status_original, STATUS_FLAG_USER_INTERACTION_REQUIRED),
     wifi_connection_error     |-> BitSet(status_original, STATUS_FLAG_WIFI_CONNECTION_ERROR),
     wifi_link_ok              |-> BitSet(status_original, STATUS_FLAG_WIFI_LINK_OK),
     server_connection_error   |-> BitSet(status_original, STATUS_FLAG_SERVER_CONNECTION_ERROR),
     server_socket_link_ok     |-> BitSet(status_original, STATUS_FLAG_SERVER_SOCKET_LINK_OK),
     sync_error                |-> BitSet(status_original, STATUS_FLAG_SYNC_ERROR),
     fw_update_error           |-> BitSet(status_original, STATUS_FLAG_FW_UPDATE_ERROR),
     fw_update_ready           |-> BitSet(status_original, STATUS_FLAG_FW_UPDATE_READY),
     launcher_cmd_ready        |-> BitSet(status_original, STATUS_FLAG_LAUNCHER_CMD_READY),
     datetime_synced           |-> BitSet(status_original, STATUS_FLAG_DATETIME_SYNCED)]

(***************************************************************************)
(* ble.py: command framing.  SHA-256 is not computed: the digest is the    *)
(* term of its inputs, so two MACs are equal exactly when key and message  *)
(* are equal.                                                              *)
(***************************************************************************)

\* struct.pack("<H", msg_seq & 0xFFFF)
SeqLe16(msg_seq) == <<(msg_seq % 65536) % 256, (msg_seq % 65536) \div 256>>

\* A slip: the sequence number is left out of the authenticated message.
Hmac4WithoutSeq(key, msg_seq, header_and_payload) ==
    [digest4 |-> "hmac-sha256", key |-> key, msg |-> <<header_and_payload>>]

\* _hmac4_sha256: the first 4 bytes of HMAC-SHA256(key, seq_le16 + header_and_payload)
hmac4_sha256(key, msg_seq, header_and_payload) ==
    [digest4 |-> "hmac-sha256", key |-> key, msg |-> <<SeqLe16(msg_seq), header_and_payload>>]

\* bytes.fromhex(skey_hex or BLE_DEFAULT_SKEY_HEX): None and "" are falsy.
KeyOrDefault(skey_hex) ==
    IF skey_hex = None \/ skey_hex = "" THEN BLE_DEFAULT_SKEY_HEX ELSE skey_hex

\* build_command_frame: header(1) + payload(N) + hmac(4)
build_command_frame(payload, msg_seq, skey_hex) ==
    LET key == KeyOrDefault(skey_hex)
        hp  == <<BLE_HEADER_SHORT, payload>>
    IN [hp |-> hp, mac |-> hmac4_sha256(key, msg_seq, hp)]

\* json.dumps({"action": action, **extra}): extra is merged only when truthy.
JsonPayload(action, extra) ==
    [action |-> action, extra |-> IF extra = None \/ extra = "{}" THEN "" ELSE extra]

\* A plausible slip: msg_seq is not passed on and keeps its default of 0.
BuildJsonCommandDefaultSeq(action, extra, msg_seq, skey_hex) ==
    build_command_frame(JsonPayload(action, extra), 0, skey_hex)

build_json_command(action, extra, msg_seq, skey_hex) ==
    build_command_frame(JsonPayload(action, extra), msg_seq, skey_hex)

\* cmd_fetch(msg_seq, skey_hex)
cmd_fetch(msg_seq, skey_hex) == build_json_command(BLE_ACTION_FETCH, None, msg_seq, skey_hex)


(***************************************************************************)
(* The device side of the local link: what a read of the status            *)
(* characteristic can return.                                              *)
(***************************************************************************)
Bytes2(v) == <<v % 256, (v \div 256) % 256>>
Bytes4(v) == <<v % 256, (v \div 256) % 256, (v \div 65536) % 256, (v \div 16777216) % 256>>

\* A 28-byte status value carrying msg_seq and the status bitmask; model "W1330".
DeviceRaw(msg_seq, status) ==
    Bytes2(4660) \o Bytes2(msg_seq) \o <<1, 87, 3, 0>> \o Bytes4(status) \o Bytes4(0)
        \o Bytes4(16908293) \o <<87, 49, 51, 51, 48, 0, 0, 0>>

MaxSeq == 2
DeviceSeqs == 1..MaxSeq
DeviceMasks == {0, STATUS_FLAG_SECURE_MODE, STATUS_FLAG_LAUNCHER_CMD_READY,
                STATUS_FLAG_SECURE_MODE + STATUS_FLAG_LAUNCHER_CMD_READY}
ShortRaw == <<1, 2, 3>>
RawReads == {DeviceRaw(s, m) : s \in DeviceSeqs, m \in DeviceMasks} \cup {ShortRaw}

(***************************************************************************)
(* ble.py: async_send_command and async_read_status                        *)
(***************************************************************************)
BleProcs == {1, 2}
Actions == {Nil, Some(BLE_ACTION_FETCH)}
Extras == {None, "ssid"}
CallerKeys == {None, "", "devicekey"}
PrebuiltCommands == {Nil, Some(cmd_fetch(0, None))}

BleIdle ==
    [op |-> "none", pc |-> "idle", command_bytes |-> Nil, action |-> Nil,
     extra |-> None, skey_hex |-> None, client |-> 0, status_before |-> Nil,
     flags |-> Nil, est |-> {}, reads |-> <<>>, written |-> Nil,
     signedWith |-> None, callerKey |-> None, result |-> Nil, error |-> None, log |-> <<>>]

BleSet(p, r) == ble' = [ble EXCEPT ![p] = r]
Logged(b, ev) == [b EXCEPT !.log = Append(@, ev)]

\* The finally clause: the outcome is decided, client.disconnect() is still to run.
ToFinally(b, result, error) ==
    [b EXCEPT !.pc = "finally", !.result = result, !.error = error]

\* A caller (button, service, coordinator) starts async_send_command.
SendStart(p) ==
    /\ p \in bleActive
    /\ ble[p].pc = "idle"
    /\ \E cb \in PrebuiltCommands, a \in Actions, e \in Extras, k \in CallerKeys :
          BleSet(p, [BleIdle EXCEPT !.op = "send", !.pc = "connect", !.command_bytes = cb,
                                    !.action = a, !.extra = e, !.skey_hex = k,
                                    !.callerKey = k])
    /\ UNCHANGED <<bleOpen, bleActive, apiVars, coordVars>>

\* A caller starts async_read_status.
ReadStart(p) ==
    /\ p \in bleActive
    /\ ble[p].pc = "idle"
    /\ BleSet(p, [BleIdle EXCEPT !.op = "read", !.pc = "connect"])
    /\ UNCHANGED <<bleOpen, bleActive, apiVars, coordVars>>

\* client = await establish_connection(...), before the try block (both operations).
Connect(p) ==
    /\ ble[p].pc = "connect"
    /\ \/ /\ BleSet(p, Logged([ble[p] EXCEPT !.pc = IF ble[p].op = "send"
                                                    THEN "read_before" ELSE "rs_read",
                                              !.client = 1, !.est = @ \cup {1}], "connect"))
          /\ bleOpen' = bleOpen \cup {<<p, 1>>}
       \/ /\ BleSet(p, Logged([ble[p] EXCEPT !.pc = "done", !.error = "LinkUnavailable"],
                              "connect_err"))
          /\ UNCHANGED bleOpen
    /\ UNCHANGED <<bleActive, apiVars, coordVars>>

\* if not flags.secure_mode: skey_hex = None  (a slip: the caller's key is kept)
DecideKeyKeep(flags, skey_hex) == skey_hex

\* if not flags.secure_mode: skey_hex = None
DecideKey(flags, skey_hex) == IF ~flags.secure_mode THEN None ELSE skey_hex

\* if not flags.launcher_cmd_ready (a slip: the check is dropped)
NotReadyNever(flags) == FALSE

\* if not flags.launcher_cmd_ready
NotReady(flags) == ~flags.launcher_cmd_ready

\* Lines 370-380: build the frame when an action is given; without a frame, ValueError.
\* Then the write is awaited.
BuildAndGo(b) ==
    LET cmd == IF b.action # Nil
               THEN Some(build_json_command(Val(b.action), b.extra,
                                            Val(b.status_before).msg_seq, b.skey_hex))
               ELSE b.command_bytes
    IN IF cmd = Nil
       THEN ToFinally(b, Nil, "ValueError")
       ELSE [b EXCEPT !.pc = "write", !.command_bytes = cmd,
                      !.signedWith = IF b.action # Nil THEN KeyOrDefault(b.skey_hex) ELSE None]

\* raw_before = await client.read_gatt_char(...) and what follows up to the next await.
SendReadBefore(p) ==
    /\ ble[p].pc = "read_before"
    /\ \/ BleSet(p, ToFinally(Logged(ble[p], "read_err"), Nil, "ReadError"))
       \/ \E raw \in RawReads :
            LET bad == Len(raw) < BLE_STATUS_LEN
                d   == decode_status(raw)
                b0  == Logged(ble[p], "read")
            IN IF bad
               THEN BleSet(p, ToFinally(b0, Nil, "MalformedFrame"))
               ELSE LET fl == parse_status_flags(d.status_original)
                        b1 == [b0 EXCEPT !.status_before = Some(d), !.flags = Some(fl),
                                         !.reads = Append(@, d),
                                         !.skey_hex = DecideKey(fl, b0.skey_hex)]
                    IN IF NotReady(fl)
                       THEN BleSet(p, [b1 EXCEPT !.pc = "retry_disconnect"])
                       ELSE BleSet(p, BuildAndGo(b1))
    /\ UNCHANGED <<bleOpen, bleActive, apiVars, coordVars>>

\* The readiness retry without its disconnect (a slip): the first connection stays
\* open while the second is established.
SendRetryDisconnectSkipped(p) ==
    /\ ble[p].pc = "retry_disconnect"
    /\ UNCHANGED bleOpen
    /\ BleSet(p, [ble[p] EXCEPT !.pc = "retry_sleep"])
    /\ UNCHANGED <<bleActive, apiVars, coordVars>>

\* await client.disconnect() of the readiness retry (line 345)
SendRetryDisconnect(p) ==
    /\ ble[p].pc = "retry_disconnect"
    /\ bleOpen' = bleOpen \ {<<p, ble[p].client>>}
    /\ BleSet(p, Logged([ble[p] EXCEPT !.pc = "retry_sleep"], "disconnect"))
    /\ UNCHANGED <<bleActive, apiVars, coordVars>>

\* await _asyncio.sleep(3.0)
SendRetrySleep(p) ==
    /\ ble[p].pc = "retry_sleep"
    /\ BleSet(p, Logged([ble[p] EXCEPT !.pc = "retry_connect"], "sleep3"))
    /\ UNCHANGED <<bleOpen, bleActive, apiVars, coordVars>>

\* client = await establish_connection(...) of the retry: on failure client keeps
\* the first, disconnected, client and the finally clause runs.
SendRetryConnect(p) ==
    /\ ble[p].pc = "retry_connect"
    /\ \/ /\ BleSet(p, Logged([ble[p] EXCEPT !.pc = "retry_read", !.client = 2,
                                              !.est = @ \cup {2}], "connect"))
          /\ bleOpen' = bleOpen \cup {<<p, 2>>}
       \/ /\ BleSet(p, ToFinally(Logged(ble[p], "connect_err"), Nil, "LinkUnavailable"))
          /\ UNCHANGED bleOpen
    /\ UNCHANGED <<bleActive, apiVars, coordVars>>

\* raw_retry = await client.read_gatt_char(...) and what follows up to the next await.
SendRetryRead(p) ==
    /\ ble[p].pc = "retry_read"
    /\ \/ BleSet(p, ToFinally(Logged(ble[p], "read_err"), Nil, "ReadError"))
       \/ \E raw \in RawReads :
            LET bad == Len(raw) < BLE_STATUS_LEN
                d   == decode_status(raw)
                b0  == Logged(ble[p], "read")
            IN IF bad
               THEN BleSet(p, ToFinally(b0, Nil, "MalformedFrame"))
               ELSE LET fl == parse_status_flags(d.status_original)
                        b1 == [b0 EXCEPT !.status_before = Some(d), !.flags = Some(fl),
                                         !.reads = Append(@, d)]
                    IN IF NotReady(fl)
                       THEN BleSet(p, [b1 EXCEPT !.pc = "notready_disconnect"])
                       ELSE BleSet(p, BuildAndGo([b1 EXCEPT !.skey_hex =
                                                        DecideKey(fl, b1.skey_hex)]))
    /\ UNCHANGED <<bleOpen, bleActive, apiVars, coordVars>>

\* The second not-ready read ends the operation without an error (a slip): it
\* disconnects and returns None.
SendNotReadyDisconnectNoRaise(p) ==
    /\ ble[p].pc = "notready_disconnect"
    /\ bleOpen' = bleOpen \ {<<p, ble[p].client>>}
    /\ BleSet(p, ToFinally(Logged(ble[p], "disconnect"), Nil, None))
    /\ UNCHANGED <<bleActive, apiVars, coordVars>>

\* await client.disconnect(); raise RuntimeError("Device not ready ...")
SendNotReadyDisconnect(p) ==
    /\ ble[p].pc = "notready_disconnect"
    /\ bleOpen' = bleOpen \ {<<p, ble[p].client>>}
    /\ BleSet(p, ToFinally(Logged(ble[p], "disconnect"), Nil, "DeviceNotReady"))
    /\ UNCHANGED <<bleActive, apiVars, coordVars>>

\* await client.write_gatt_char(BLE_COMMAND_CHAR_UUID, command_bytes, response=True)
SendWrite(p) ==
    /\ ble[p].pc = "write"
    /\ \/ BleSet(p, Logged([ble[p] EXCEPT !.pc = "settle_sleep",
                                          !.written = ble[p].command_bytes], "write"))
       \/ BleSet(p, ToFinally(Logged(ble[p], "write_err"), Nil, "WriteError"))
    /\ UNCHANGED <<bleOpen, bleActive, apiVars, coordVars>>

\* A slip: the status is read again right after the write, without the pause.
SendSettleSleepSkipped(p) ==
    /\ ble[p].pc = "settle_sleep"
    /\ BleSet(p, [ble[p] EXCEPT !.pc = "read_after"])
    /\ UNCHANGED <<bleOpen, bleActive, apiVars, coordVars>>

\* await _asyncio.sleep(1.0)
SendSettleSleep(p) ==
    /\ ble[p].pc = "settle_sleep"
    /\ BleSet(p, Logged([ble[p] EXCEPT !.pc = "read_after"], "sleep1"))
    /\ UNCHANGED <<bleOpen, bleActive, apiVars, coordVars>>

\* raw_after = await client.read_gatt_char(...); return decode_status(bytes(raw_after))
SendReadAfter(p) ==
    /\ ble[p].pc = "read_after"
    /\ \/ BleSet(p, ToFinally(Logged(ble[p], "read_err"), Nil, "ReadError"))
       \/ \E raw \in RawReads :
            LET bad == Len(raw) < BLE_STATUS_LEN
                d   == decode_status(raw)
                b0  == Logged(ble[p], "read")
            IN IF bad
               THEN BleSet(p, ToFinally(b0, Nil, "MalformedFrame"))
               ELSE BleSet(p, ToFinally([b0 EXCEPT !.reads = Append(@, d)], Some(d), None))
    /\ UNCHANGED <<bleOpen, bleActive, apiVars, coordVars>>

\* async_read_status: raw = await client.read_gatt_char(...); return decode_status(bytes(raw))
ReadStatusRead(p) ==
    /\ ble[p].pc = "rs_read"
    /\ \/ BleSet(p, ToFinally(Logged(ble[p], "read_err"), Nil, "ReadError"))
       \/ \E raw \in RawReads :
            LET bad == Len(raw) < BLE_STATUS_LEN
                d   == decode_status(raw)
                b0  == Logged(ble[p], "read")
            IN IF bad
               THEN BleSet(p, ToFinally(b0, Nil, "MalformedFrame"))
               ELSE BleSet(p, ToFinally([b0 EXCEPT !.reads = Append(@, d)], Some(d), None))
    /\ UNCHANGED <<bleOpen, bleActive, apiVars, coordVars>>

\* A slip: the disconnect sits at the end of the try body, not in a finally clause,
\* so it runs only when the body returns.
FinallyOnlyOnReturn(p) ==
    /\ ble[p].pc = "finally"
    /\ bleOpen' = IF ble[p].error = None THEN bleOpen \ {<<p, ble[p].client>>} ELSE bleOpen
    /\ BleSet(p, Logged([ble[p] EXCEPT !.pc = "done"], "disconnect"))
    /\ UNCHANGED <<bleActive, apiVars, coordVars>>

\* finally: await client.disconnect()  (both operations), on the client bound last.
Finally(p) ==
    /\ ble[p].pc = "finally"
    /\ bleOpen' = bleOpen \ {<<p, ble[p].client>>}
    /\ BleSet(p, Logged([ble[p] EXCEPT !.pc = "done"], "disconnect"))
    /\ UNCHANGED <<bleActive, apiVars, coordVars>>

\* The operation has ended; the slot is free for the caller's next operation.
BleReturn(p) ==
    /\ ble[p].pc = "done"
    /\ BleSet(p, BleIdle)
    /\ UNCHANGED <<bleOpen, bleActive, apiVars, coordVars>>

\* InkposterApiClient.__init__: no device id, no tokens (0 names the empty string).
TokInit == [device_id |-> "", access_token |-> 0, refresh_token |-> 0, expires_at |-> 0]

BleInit ==
    /\ ble = [p \in BleProcs |-> BleIdle]
    /\ bleOpen = {}

ApiQuiet ==
    /\ tok = TokInit
    /\ lock = 0
    /\ store = Nil
    /\ saves = 0
    /\ now = 0
    /\ srvSeq = 0
    /\ faults = {}
    /\ api = <<>>

\* The coordinators and the upload are not part of this run.
CoordQuiet ==
    /\ cloud = <<>>
    /\ local = <<>>
    /\ upl = <<>>
    /\ calc = <<>>
    /\ svc = <<>>

\* One local-link operation at a time (a single caller).
InitBle ==
    /\ BleInit
    /\ bleActive = {1}
    /\ ApiQuiet
    /\ CoordQuiet

NextBle ==
    \E p \in BleProcs :
        \/ SendStart(p)
        \/ ReadStart(p)
        \/ Connect(p)
        \/ SendReadBefore(p)
        \/ SendRetryDisconnect(p)
        \/ SendRetrySleep(p)
        \/ SendRetryConnect(p)
        \/ SendRetryRead(p)
        \/ SendNotReadyDisconnect(p)
        \/ SendWrite(p)
        \/ SendSettleSleep(p)
        \/ SendReadAfter(p)
        \/ ReadStatusRead(p)
        \/ Finally(p)
        \/ BleReturn(p)

SpecBle == InitBle /\ [][NextBle]_vars

(***************************************************************************)
(* api_client.py: InkposterApiClient.  Tokens are named by numbers: 0 is   *)
(* the empty string, n > 0 the token of the cloud's n-th auth response,    *)
(* PersistedToken the one found on disk at startup.                        *)
(***************************************************************************)
Tasks == {1, 2}
MaxCalls == 2
MaxTicks == 1
\* The clock moves in steps of an hour and starts two hours after the epoch.
TickSecs == REFRESH_BUFFER_SECS
StartTime == 2 * REFRESH_BUFFER_SECS
PersistedToken == 100

\* expiresIn of an auth response, as seconds after the response: a token that
\* expires in 30 minutes and one that expires in 2 hours.
ExpiryOffsets == {1800, 7200}
\* HTTP statuses of the endpoint's final response (redirects are followed by the
\* HTTP client; 304 is not a redirect).
Statuses == {200, 304, 401, 500}

\* The auth endpoints answer with a full body, fail (network error or non-2xx) or,
\* where the specification admits malformed bodies, answer with a body that lacks
\* refreshToken.
AuthOutcomes ==
    {[kind |-> "ok", off |-> o] : o \in ExpiryOffsets}
        \cup {[kind |-> "partial", off |-> 7200] : x \in faults \cap {"partial"}}
        \cup {[kind |-> "err", off |-> 0]}

AuthData(out) ==
    [accessToken |-> srvSeq + 1, refreshToken |-> srvSeq + 1, expiresIn |-> now + out.off,
     missing |-> IF out.kind = "partial" THEN "refreshToken" ELSE ""]

PersistedRecords ==
    {[device_id |-> "d0", access_token |-> PersistedToken, refresh_token |-> PersistedToken,
      expires_at |-> StartTime + d] : d \in {-1800, 1800, 7200}}

\* A slip: the refresh buffer is forgotten.
IsTokenExpiringSoonNoBuffer(tk, t) == t >= tk.expires_at

\* _is_token_expiring_soon, at time t
IsTokenExpiringSoon(tk, t) == t >= tk.expires_at - REFRESH_BUFFER_SECS

\* A slip: a persisted record that has expired is dropped instead of loaded.
LoadedTokensUnlessExpired(data) ==
    IF data.expires_at > now
    THEN [device_id |-> data.device_id, access_token |-> data.access_token,
          refresh_token |-> data.refresh_token, expires_at |-> data.expires_at]
    ELSE [device_id |-> data.device_id, access_token |-> 0, refresh_token |-> 0,
          expires_at |-> 0]

\* _load_persisted_tokens: the fields taken from the stored record
LoadedTokens(data) ==
    [device_id |-> data.device_id, access_token |-> data.access_token,
     refresh_token |-> data.refresh_token, expires_at |-> data.expires_at]

\* _load_persisted_tokens: bool(self._access_token and self._expires_at > time.time())
LoadedValid(tk, t) == tk.access_token # 0 /\ tk.expires_at > t

\* _save_tokens: the record written
SavedRecord(tk) ==
    [device_id |-> tk.device_id, access_token |-> tk.access_token,
     refresh_token |-> tk.refresh_token, expires_at |-> tk.expires_at]

\* A slip: expiresIn is taken for a duration.
ApplyAuthResponseAsDuration(tk, data) ==
    IF data.missing = "refreshToken"
    THEN [tok |-> [tk EXCEPT !.access_token = data.accessToken], ok |-> FALSE]
    ELSE [tok |-> [tk EXCEPT !.access_token = data.accessToken,
                             !.refresh_token = data.refreshToken,
                             !.expires_at = now + data.expiresIn], ok |-> TRUE]

\* _apply_auth_response: the assignments run in order; a missing key raises KeyError
\* after the assignments before it.
ApplyAuthResponse(tk, data) ==
    IF data.missing = "refreshToken"
    THEN [tok |-> [tk EXCEPT !.access_token = data.accessToken], ok |-> FALSE]
    ELSE [tok |-> [tk EXCEPT !.access_token = data.accessToken,
                             !.refresh_token = data.refreshToken,
                             !.expires_at = data.expiresIn], ok |-> TRUE]

\* A slip: every error status starts the recovery.
NeedsRecoveryOnAnyError(status) == status >= 400

\* if resp.status == 401
NeedsRecovery(status) == status = 401

\* A slip: only server errors raise.
RaiseForStatusServerOnly(status) == status >= 500

\* resp.raise_for_status(): aiohttp raises ClientResponseError when status >= 400
RaiseForStatus(status) == status >= 400

\* A slip: async_ensure_token does not take the lock.
EnsureLockIgnored(l) == TRUE

\* async with self._refresh_lock (async_ensure_token): entered when the lock is free
EnsureLockFree(l) == l = 0

\* async with self._refresh_lock (the 401 recovery): entered when the lock is free
RecoverLockFree(l) == l = 0

ApiIdle(n) ==
    [op |-> "none", pc |-> "idle", n |-> n, waited |-> "no", sent |-> <<>>, resp |-> <<>>,
     auths |-> <<>>, entered |-> FALSE, ensHeld |-> FALSE, entryNow |-> 0,
     ensTokBefore |-> TokInit, ensRet |-> "none", retNow |-> 0, ensTokAfter |-> TokInit,
     recOverlap |-> <<0, 0>>, loaded |-> Nil, result |-> "none", error |-> None]

\* Calls started so far: n numbers the calls in the order they start.
CallsMade ==
    LET ns == {api[t].n : t \in Tasks} IN CHOOSE m \in ns : \A k \in ns : k <= m

InCritical(a) ==
    a.pc \in {"ens_load", "ens_refresh_persisted", "ens_refresh", "ens_login",
              "rec_refresh", "rec_login"}

\* A step's effect on the task, the token state and the lock.
Commit(t, o) ==
    /\ api' = [api EXCEPT ![t] = o.a]
    /\ tok' = o.tok
    /\ lock' = o.lock

\* session.post(...) to an auth endpoint is issued.
IssueAuth(a, kind, phase, tk) ==
    [a EXCEPT !.auths = Append(@, [kind |-> kind, phase |-> phase, bearer |-> tk.access_token,
                                   device |-> tk.device_id, out |-> "pending", access |-> 0,
                                   expires |-> 0])]

\* The response of the auth request issued last.
AuthAnswered(a, out, data) ==
    [a EXCEPT !.auths[Len(a.auths)].out = out.kind,
              !.auths[Len(a.auths)].access = IF out.kind = "err" THEN 0 ELSE data.accessToken,
              !.auths[Len(a.auths)].expires = IF out.kind = "err" THEN 0 ELSE data.expiresIn]

\* async_login up to its await: the device id is generated when absent.
LoginStart(a, tk, phase, t) ==
    LET tk1 == [tk EXCEPT !.device_id = IF @ = "" THEN "uuid4" ELSE @]
    IN [a |-> IssueAuth([a EXCEPT !.pc = IF phase = "ensure" THEN "ens_login" ELSE "rec_login"],
                        "login", phase, tk1),
        tok |-> tk1, lock |-> t]

\* _async_refresh up to its await.
RefreshStart(a, tk, pc, phase, t) ==
    [a |-> IssueAuth([a EXCEPT !.pc = pc], "refresh", phase, tk), tok |-> tk, lock |-> t]

\* req_headers = self._auth_headers(headers); resp = await session.request(...)
IssueCall(a, tk, pc) == [a EXCEPT !.pc = pc, !.sent = Append(@, tk.access_token)]

\* async_ensure_token returns: the lock is released; _async_request and
\* async_upload_convert go on to the first call without an await in between.
EnsureReturn(a, tk, how) ==
    LET a1 == [a EXCEPT !.ensRet = how, !.retNow = now, !.ensTokAfter = tk]
    IN [a |-> IF a.op = "ensure" THEN [a1 EXCEPT !.pc = "done", !.result = "returned"]
              ELSE IssueCall(a1, tk, "call1"),
        tok |-> tk, lock |-> 0]

\* An exception leaves the async with block (and the caller): the lock is released.
Raise(a, tk, error) ==
    [a |-> [a EXCEPT !.pc = "done", !.result = "error", !.error = error,
                     !.ensRet = IF @ = "none" THEN "raised" ELSE @],
     tok |-> tk, lock |-> 0]

\* async_ensure_token, lines 196-209, up to the next await.
EnsDecide(a, tk, t) ==
    IF tk.access_token # 0 /\ ~IsTokenExpiringSoon(tk, now)
    THEN EnsureReturn(a, tk, IF a.ensHeld THEN "fast" ELSE "kept")
    ELSE IF tk.access_token # 0
    THEN RefreshStart(a, tk, "ens_refresh", "ensure", t)
    ELSE LoginStart(a, tk, "ensure", t)

\* The lock is acquired: lines 183-186 up to the next await.
EnsEnter(a, tk, t) ==
    LET a1 == [a EXCEPT !.entered = TRUE, !.ensHeld = tk.access_token # 0, !.entryNow = now,
                        !.ensTokBefore = tk]
    IN IF tk.access_token = 0
       THEN [a |-> [a1 EXCEPT !.pc = "ens_load"], tok |-> tk, lock |-> t]
       ELSE EnsDecide(a1, tk, t)

\* What the holder of the lock is in: async_ensure_token or a 401 recovery.
HolderPhase ==
    IF lock = 0 THEN "no"
    ELSE IF api[lock].pc \in {"rec_refresh", "rec_login"} THEN "recover" ELSE "ensure"

\* The event loop runs what is ready before it resumes any task on an I/O
\* completion: a task created by async_create_task, the continuation of a caller
\* whose call has ended, and the waiter that a release of the lock woke up
\* (asyncio.Lock gives a released lock to its first waiter; nobody overtakes it).
Ready0 == saves = 0 /\ \A u \in Tasks : api[u].pc # "done"
Woken == lock = 0 /\ \E u \in Tasks : api[u].pc \in {"ens_wait", "rec_wait"}
Settled == Ready0 /\ ~Woken

\* A caller starts async_ensure_token, or a request: _async_request and
\* async_upload_convert, which run the same steps (await self.async_ensure_token(),
\* the call, the 401 recovery under the lock, the retried call, raise_for_status).
ApiCall(t) ==
    /\ Settled
    /\ api[t].pc = "idle"
    /\ CallsMade < MaxCalls
    /\ \E op \in {"ensure", "request"} :
         LET a0 == [ApiIdle(CallsMade + 1) EXCEPT !.op = op]
         IN IF EnsureLockFree(lock)
            THEN Commit(t, EnsEnter(a0, tok, t))
            ELSE Commit(t, [a |-> [a0 EXCEPT !.pc = "ens_wait", !.waited = HolderPhase],
                            tok |-> tok, lock |-> lock])
    /\ UNCHANGED <<store, saves, now, srvSeq, faults, bleVars, coordVars>>

\* A waiting caller of async_ensure_token gets the lock.
EnsAcquire(t) ==
    /\ Ready0
    /\ api[t].pc = "ens_wait"
    /\ EnsureLockFree(lock)
    /\ Commit(t, EnsEnter(api[t], tok, t))
    /\ UNCHANGED <<store, saves, now, srvSeq, faults, bleVars, coordVars>>

\* data = await self._store.async_load() returns, and what follows up to the next await.
EnsLoad(t) ==
    /\ Settled
    /\ api[t].pc = "ens_load"
    /\ IF store = Nil
       THEN Commit(t, EnsDecide(api[t], tok, t))
       ELSE LET tk == LoadedTokens(Val(store))
                a  == [api[t] EXCEPT !.loaded = store]
            IN IF LoadedValid(tk, now)
               THEN IF ~IsTokenExpiringSoon(tk, now)
                    THEN Commit(t, EnsureReturn(a, tk, "loaded"))
                    ELSE Commit(t, RefreshStart(a, tk, "ens_refresh_persisted",
                                                "ensure", t))
               ELSE Commit(t, EnsDecide(a, tk, t))
    /\ UNCHANGED <<store, saves, now, srvSeq, faults, bleVars, coordVars>>

\* The refresh of a freshly loaded token answers (lines 190-194).
EnsRefreshPersistedResp(t) ==
    /\ Settled
    /\ api[t].pc = "ens_refresh_persisted"
    /\ \E out \in AuthOutcomes :
         LET data == AuthData(out)
             a1   == AuthAnswered(api[t], out, data)
             r    == ApplyAuthResponse(tok, data)
         IN IF out.kind = "err"
            THEN Commit(t, EnsDecide(a1, tok, t)) /\ UNCHANGED <<saves, srvSeq>>
            ELSE /\ srvSeq' = srvSeq + 1
                 /\ IF r.ok
                    THEN Commit(t, EnsureReturn(a1, r.tok, "refreshed")) /\ saves' = saves + 1
                    ELSE Commit(t, EnsDecide(a1, r.tok, t)) /\ UNCHANGED saves
    /\ UNCHANGED <<store, now, faults, bleVars, coordVars>>

\* The refresh of lines 201-206 answers; on any exception the login follows.
EnsRefreshResp(t) ==
    /\ Settled
    /\ api[t].pc = "ens_refresh"
    /\ \E out \in AuthOutcomes :
         LET data == AuthData(out)
             a1   == AuthAnswered(api[t], out, data)
             r    == ApplyAuthResponse(tok, data)
         IN IF out.kind = "err"
            THEN Commit(t, LoginStart(a1, tok, "ensure", t)) /\ UNCHANGED <<saves, srvSeq>>
            ELSE /\ srvSeq' = srvSeq + 1
                 /\ IF r.ok
                    THEN Commit(t, EnsureReturn(a1, r.tok, "refreshed")) /\ saves' = saves + 1
                    ELSE Commit(t, LoginStart(a1, r.tok, "ensure", t)) /\ UNCHANGED saves
    /\ UNCHANGED <<store, now, faults, bleVars, coordVars>>

\* A slip: the login sits in a try/except like the refreshes, and its failure is
\* only logged.
LoginFailedSwallowed(a, tk) == EnsureReturn(a, tk, "login")

\* await self.async_login() raises (line 209): nothing catches it inside
\* async_ensure_token.
LoginFailed(a, tk) == Raise(a, tk, "ClientError")

\* The login of line 209 answers; its exception leaves async_ensure_token.
EnsLoginResp(t) ==
    /\ Settled
    /\ api[t].pc = "ens_login"
    /\ \E out \in AuthOutcomes :
         LET data == AuthData(out)
             a1   == AuthAnswered(api[t], out, data)
             r    == ApplyAuthResponse(tok, data)
         IN IF out.kind = "err"
            THEN Commit(t, LoginFailed(a1, tok))
                 /\ UNCHANGED <<saves, srvSeq>>
            ELSE /\ srvSeq' = srvSeq + 1
                 /\ IF r.ok
                    THEN Commit(t, EnsureReturn(a1, r.tok, "login")) /\ saves' = saves + 1
                    ELSE Commit(t, Raise(a1, r.tok, "KeyError"))
                         /\ UNCHANGED saves
    /\ UNCHANGED <<store, now, faults, bleVars, coordVars>>

\* resp.raise_for_status(), then the body: _async_request returns resp.json() or
\* resp.read(), async_upload_convert returns resp.json(); a body that json() cannot
\* decode raises.
Finish(a, tk, l, status, decodes) ==
    [a |-> [a EXCEPT !.pc = "done", !.resp = Append(@, status),
                     !.result = IF RaiseForStatus(status) \/ ~decodes THEN "error" ELSE "value",
                     !.error = IF RaiseForStatus(status) THEN "ClientResponseError"
                               ELSE IF ~decodes THEN "DecodeError" ELSE None],
     tok |-> tk, lock |-> l]

\* The first call answers (lines 228-234 and 331-334): a network error raises; a 401
\* enters the recovery, which waits for the lock when it is held.
Call1Resp(t) ==
    /\ Settled
    /\ api[t].pc = "call1"
    /\ \/ Commit(t, [a |-> [api[t] EXCEPT !.pc = "done", !.result = "error",
                                          !.error = "NetworkError"],
                     tok |-> tok, lock |-> lock])
       \/ \E status \in Statuses :
            IF NeedsRecovery(status)
            THEN LET a1 == [api[t] EXCEPT !.resp = Append(@, status)]
                 IN IF RecoverLockFree(lock)
                    THEN Commit(t, RefreshStart(a1, tok, "rec_refresh", "recover", t))
                    ELSE Commit(t, [a |-> [a1 EXCEPT !.pc = "rec_wait",
                                               !.recOverlap =
                                                   IF lock # 0 /\ api[lock].pc \in {"rec_refresh", "rec_login"}
                                                   THEN <<lock, api[lock].n>> ELSE <<0, 0>>],
                                    tok |-> tok, lock |-> lock])
            ELSE \E decodes \in BOOLEAN : Commit(t, Finish(api[t], tok, lock, status, decodes))
    /\ UNCHANGED <<store, saves, now, srvSeq, faults, bleVars, coordVars>>

\* A recovery that waited gets the lock and issues its refresh.
RecAcquire(t) ==
    /\ Ready0
    /\ api[t].pc = "rec_wait"
    /\ RecoverLockFree(lock)
    /\ Commit(t, RefreshStart(api[t], tok, "rec_refresh", "recover", t))
    /\ UNCHANGED <<store, saves, now, srvSeq, faults, bleVars, coordVars>>

\* The recovery's refresh answers (lines 235-242): success releases the lock and
\* retries the call with the new headers; any exception starts the login.
RecRefreshResp(t) ==
    /\ Settled
    /\ api[t].pc = "rec_refresh"
    /\ \E out \in AuthOutcomes :
         LET data == AuthData(out)
             a1   == AuthAnswered(api[t], out, data)
             r    == ApplyAuthResponse(tok, data)
         IN IF out.kind = "err"
            THEN Commit(t, LoginStart(a1, tok, "recover", t)) /\ UNCHANGED <<saves, srvSeq>>
            ELSE /\ srvSeq' = srvSeq + 1
                 /\ IF r.ok
                    THEN Commit(t, [a |-> IssueCall(a1, r.tok, "call2"), tok |-> r.tok,
                                    lock |-> 0])
                         /\ saves' = saves + 1
                    ELSE Commit(t, LoginStart(a1, r.tok, "recover", t)) /\ UNCHANGED saves
    /\ UNCHANGED <<store, now, faults, bleVars, coordVars>>

\* The recovery's login answers: success releases the lock and retries the call;
\* its exception leaves the request.
RecLoginResp(t) ==
    /\ Settled
    /\ api[t].pc = "rec_login"
    /\ \E out \in AuthOutcomes :
         LET data == AuthData(out)
             a1   == AuthAnswered(api[t], out, data)
             r    == ApplyAuthResponse(tok, data)
         IN IF out.kind = "err"
            THEN Commit(t, Raise(a1, tok, "ClientError"))
                 /\ UNCHANGED <<saves, srvSeq>>
            ELSE /\ srvSeq' = srvSeq + 1
                 /\ IF r.ok
                    THEN Commit(t, [a |-> IssueCall(a1, r.tok, "call2"), tok |-> r.tok,
                                    lock |-> 0])
                         /\ saves' = saves + 1
                    ELSE Commit(t, Raise(a1, r.tok, "KeyError"))
                         /\ UNCHANGED saves
    /\ UNCHANGED <<store, now, faults, bleVars, coordVars>>

\* The retried call answers (lines 240-248 and 340-343).
Call2Resp(t) ==
    /\ Settled
    /\ api[t].pc = "call2"
    /\ \/ Commit(t, [a |-> [api[t] EXCEPT !.pc = "done", !.result = "error",
                                          !.error = "NetworkError"],
                     tok |-> tok, lock |-> lock])
       \/ \E status \in Statuses, decodes \in BOOLEAN :
            Commit(t, Finish(api[t], tok, lock, status, decodes))
    /\ UNCHANGED <<store, saves, now, srvSeq, faults, bleVars, coordVars>>

\* The call has ended; the task may make its next call.
ApiReturn(t) ==
    /\ saves = 0
    /\ api[t].pc = "done"
    /\ api' = [api EXCEPT ![t] = ApiIdle(api[t].n)]
    /\ UNCHANGED <<tok, lock, store, saves, now, srvSeq, faults, bleVars, coordVars>>

\* A _save_tokens task created by _apply_auth_response runs.
SaveTokens ==
    /\ saves > 0
    /\ store' = Some(SavedRecord(tok))
    /\ saves' = saves - 1
    /\ UNCHANGED <<tok, lock, now, srvSeq, faults, api, bleVars, coordVars>>

\* Time passes: an hour between two calls (a call in progress ends, by the HTTP
\* client's timeouts, long before).
Tick ==
    /\ Settled
    /\ now < StartTime + MaxTicks * TickSecs
    /\ \A t \in Tasks : api[t].pc = "idle"
    /\ now' = now + TickSecs
    /\ UNCHANGED <<tok, lock, store, saves, srvSeq, faults, api, bleVars, coordVars>>

\* The client after construction; the token record on disk is absent or is one an
\* earlier run saved.
InitApi ==
    /\ tok = TokInit
    /\ lock = 0
    /\ store \in {Nil} \cup {Some(r) : r \in PersistedRecords}
    /\ saves = 0
    /\ now = StartTime
    /\ srvSeq = 0
    /\ faults = {}
    /\ api = [t \in Tasks |-> ApiIdle(0)]
    /\ BleInit
    /\ bleActive = {}
    /\ CoordQuiet

NextApi ==
    \/ SaveTokens
    \/ Tick
    \/ \E t \in Tasks :
        \/ ApiCall(t)
        \/ EnsAcquire(t)
        \/ EnsLoad(t)
        \/ EnsRefreshPersistedResp(t)
        \/ EnsRefreshResp(t)
        \/ EnsLoginResp(t)
        \/ Call1Resp(t)
        \/ RecAcquire(t)
        \/ RecRefreshResp(t)
        \/ RecLoginResp(t)
        \/ Call2Resp(t)
        \/ ApiReturn(t)

SpecApi == InitApi /\ [][NextApi]_vars

\* async_login called directly (config_flow.async_step_user): the device id is
\* generated when absent and the login request is sent; _refresh_lock is not taken.
LoginCall(t) ==
    /\ Settled
    /\ api[t].pc = "idle"
    /\ CallsMade < MaxCalls
    /\ LET o == LoginStart([ApiIdle(CallsMade + 1) EXCEPT !.op = "login"], tok, "direct", t)
       IN Commit(t, [a |-> [o.a EXCEPT !.pc = "login"], tok |-> o.tok, lock |-> lock])
    /\ UNCHANGED <<store, saves, now, srvSeq, faults, bleVars, coordVars>>

\* The direct login answers (lines 144-149): raise_for_status, then
\* _apply_auth_response, then the response is returned.
LoginResp(t) ==
    /\ Settled
    /\ api[t].pc = "login"
    /\ \E out \in AuthOutcomes :
         LET data == AuthData(out)
             a1   == AuthAnswered(api[t], out, data)
             r    == ApplyAuthResponse(tok, data)
         IN IF out.kind = "err"
            THEN Commit(t, [a |-> [a1 EXCEPT !.pc = "done", !.result = "error",
                                             !.error = "ClientError"],
                            tok |-> tok, lock |-> lock])
                 /\ UNCHANGED <<saves, srvSeq>>
            ELSE /\ srvSeq' = srvSeq + 1
                 /\ IF r.ok
                    THEN Commit(t, [a |-> [a1 EXCEPT !.pc = "done", !.result = "value"],
                                    tok |-> r.tok, lock |-> lock])
                         /\ saves' = saves + 1
                    ELSE Commit(t, [a |-> [a1 EXCEPT !.pc = "done", !.result = "error",
                                                     !.error = "KeyError"],
                                    tok |-> r.tok, lock |-> lock])
                         /\ UNCHANGED saves
    /\ UNCHANGED <<store, now, faults, bleVars, coordVars>>

\* One caller that drives a client through its public entry points in any order:
\* async_login, async_ensure_token and the requests.
SessionTasks == {1}

NextSession ==
    \/ SaveTokens
    \/ Tick
    \/ \E t \in SessionTasks :
        \/ LoginCall(t)
        \/ LoginResp(t)
        \/ ApiCall(t)
        \/ EnsLoad(t)
        \/ EnsRefreshPersistedResp(t)
        \/ EnsRefreshResp(t)
        \/ EnsLoginResp(t)
        \/ Call1Resp(t)
        \/ RecRefreshResp(t)
        \/ RecLoginResp(t)
        \/ Call2Resp(t)
        \/ ApiReturn(t)

SpecSession == InitApi /\ [][NextSession]_vars

\* The single caller against a cloud that may also answer an auth request with a
\* body that lacks refreshToken.
InitSessionMalformed ==
    /\ tok = TokInit
    /\ lock = 0
    /\ store \in {Nil} \cup {Some(r) : r \in PersistedRecords}
    /\ saves = 0
    /\ now = StartTime
    /\ srvSeq = 0
    /\ faults = {"partial"}
    /\ api = [t \in Tasks |-> ApiIdle(0)]
    /\ BleInit
    /\ bleActive = {}
    /\ CoordQuiet

SpecSessionMalformed == InitSessionMalformed /\ [][NextSession]_vars

\* The same client against a cloud that may also answer an auth request with a body
\* that lacks refreshToken; nothing is on disk.
InitApiMalformed ==
    /\ tok = TokInit
    /\ lock = 0
    /\ store = Nil
    /\ saves = 0
    /\ now = StartTime
    /\ srvSeq = 0
    /\ faults = {"partial"}
    /\ api = [t \in Tasks |-> ApiIdle(0)]
    /\ BleInit
    /\ bleActive = {}
    /\ CoordQuiet

SpecApiMalformed == InitApiMalformed /\ [][NextApi]_vars

(***************************************************************************)
(* coordinator.py: InkposterCloudCoordinator.  A tick is one run of        *)
(* DataUpdateCoordinator._async_refresh around _async_update_data; each of *)
(* its three GETs is an authenticated request of the cloud client, seen    *)
(* here by its outcome: a response list or an exception.  An item of a     *)
(* response list is stamped with the tick and the GET that it answers.     *)
(***************************************************************************)
MaxPolls == 3
FrameUuid == "u1"
OtherUuid == "u2"
SnapshotFields == {"frame_status", "image_status", "version_check"}

EmptyDict == [empty |-> TRUE, tick |-> 0, get |-> "", of |-> ""]
FrameData(k, g, u) == [empty |-> FALSE, tick |-> k, get |-> g, of |-> u]

\* The response lists of the docstring of _extract_frame_data, one without the
\* frame, the empty list, and one with an item that is not a dict.
ResponseItem(k, g, U) == [isdict |-> TRUE, d |-> [u \in U |-> FrameData(k, g, u)]]
NotADict == [isdict |-> FALSE, d |-> <<>>]
ResponseLists(k, g) ==
    { <<>>,
      <<ResponseItem(k, g, {FrameUuid})>>,
      <<ResponseItem(k, g, {OtherUuid})>>,
      <<ResponseItem(k, g, {OtherUuid}), ResponseItem(k, g, {FrameUuid})>>,
      <<ResponseItem(k, g, {FrameUuid, OtherUuid})>>,
      <<NotADict, ResponseItem(k, g, {FrameUuid})>> }

\* _extract_frame_data returning the last match instead of the first (a slip)
ExtractLastMatch(response_list, frame_uuid) ==
    LET hits == {i \in 1..Len(response_list) :
                    /\ response_list[i].isdict
                    /\ frame_uuid \in DOMAIN response_list[i].d}
    IN IF hits = {}
       THEN EmptyDict
       ELSE response_list[CHOOSE i \in hits : \A j \in hits : i >= j].d[frame_uuid]

\* The data of the first item that is a dict with the frame's uuid, else {}.
_extract_frame_data(response_list, frame_uuid) ==
    LET hits == {i \in 1..Len(response_list) :
                    /\ response_list[i].isdict
                    /\ frame_uuid \in DOMAIN response_list[i].d}
    IN IF hits = {}
       THEN EmptyDict
       ELSE response_list[CHOOSE i \in hits : \A j \in hits : i <= j].d[frame_uuid]

\* What the cache file can hold at setup: snapshots saved by an earlier run (tick 0).
CachedSnapshots ==
    { [frame_status  |-> FrameData(0, "frame_status", FrameUuid),
       image_status  |-> i,
       version_check |-> FrameData(0, "version_check", FrameUuid)] :
         i \in {EmptyDict, FrameData(0, "image_status", FrameUuid)} }

\* A coordinator as __init__ leaves it (data None, last_update_success True); st is
\* the content of its Store, n and h the ticks made and the GETs sent so far.
CloudNew(st, n, h) ==
    [phase |-> "load", data |-> Nil, last_update_success |-> TRUE,
     store |-> st, saves |-> 0, scheduled |-> FALSE, polls |-> n, pc |-> "idle",
     frame_status_list |-> <<>>, image_status_list |-> <<>>, sent |-> h]

\* The dict returned by _async_update_data (lines 108-117): the three extracts of
\* this tick's response lists.  The mutant keeps the previous field where the
\* extract is empty.
AssembledOverPrevious(c, version_check_list) ==
    LET x == [frame_status  |-> _extract_frame_data(c.frame_status_list, FrameUuid),
              image_status  |-> _extract_frame_data(c.image_status_list, FrameUuid),
              version_check |-> _extract_frame_data(version_check_list, FrameUuid)]
    IN [f \in SnapshotFields |->
          IF x[f].empty /\ c.data # Nil THEN Val(c.data)[f] ELSE x[f]]
Assembled(c, version_check_list) ==
    [frame_status  |-> _extract_frame_data(c.frame_status_list, FrameUuid),
     image_status  |-> _extract_frame_data(c.image_status_list, FrameUuid),
     version_check |-> _extract_frame_data(version_check_list, FrameUuid)]

\* A GET raised (lines 105-106): UpdateFailed is raised, and _async_refresh keeps
\* self.data and clears last_update_success.  The mutant returns None instead.
ReturnNoneOnError(c) == [c EXCEPT !.data = Nil, !.last_update_success = TRUE]
RaiseUpdateFailed(c) == [c EXCEPT !.last_update_success = FALSE]

\* async_set_updated_data (lines 91-95): the library sets the data and marks the
\* update successful; a _async_save_cache task is created for non-None data.
async_set_updated_data(c, data) ==
    [c EXCEPT !.data = data, !.last_update_success = TRUE,
              !.saves = IF data # Nil THEN @ + 1 ELSE @]

GetSent(c, g) == [c EXCEPT !.pc = g,
                           !.sent = Append(@, [tick |-> c.polls, get |-> g, out |-> "pending"])]
GetAnswered(c, out) == [c EXCEPT !.sent[Len(c.sent)].out = out]

\* The end of _async_refresh: the first refresh of setup either lets the setup go on
\* (the entities then subscribe, which schedules the next refresh) or raises
\* ConfigEntryNotReady; a later refresh reschedules itself in its finally clause.
RefreshEnded(c, ok) ==
    [c EXCEPT !.pc = "idle",
              !.phase = IF c.phase = "first" /\ ~ok THEN "not_ready" ELSE "running",
              !.scheduled = ~(c.phase = "first" /\ ~ok)]

CloudStep(c) ==
    /\ cloud' = c
    /\ UNCHANGED <<bleVars, apiVars, local, upl, calc, svc>>

\* async_load_cached_data (lines 80-85), called once during setup.
LoadCache ==
    /\ cloud.phase = "load"
    /\ LET c == [cloud EXCEPT !.phase = "first"]
       IN CloudStep(IF c.store # Nil THEN async_set_updated_data(c, c.store) ELSE c)

\* A _async_save_cache task runs (lines 87-89).
CacheSave ==
    /\ cloud.saves > 0
    /\ CloudStep([cloud EXCEPT !.saves = @ - 1,
                               !.store = IF cloud.data # Nil THEN cloud.data ELSE @])

\* A refresh starts (the first one of setup, a scheduled one, or one requested by a
\* button or a service) and sends the first GET.
PollStart ==
    /\ cloud.pc = "idle"
    /\ cloud.phase = "first" \/ (cloud.phase = "running" /\ cloud.scheduled)
    /\ cloud.polls < MaxPolls
    /\ CloudStep(GetSent([cloud EXCEPT !.polls = @ + 1, !.scheduled = FALSE],
                         "frame_status"))

GetFrameStatusResp ==
    /\ cloud.pc = "frame_status"
    /\ cloud.saves = 0
    /\ \E l \in ResponseLists(cloud.polls, "frame_status") :
         CloudStep(GetSent([GetAnswered(cloud, "ok") EXCEPT !.frame_status_list = l],
                           "image_status"))

GetImageStatusResp ==
    /\ cloud.pc = "image_status"
    /\ cloud.saves = 0
    /\ \E l \in ResponseLists(cloud.polls, "image_status") :
         CloudStep(GetSent([GetAnswered(cloud, "ok") EXCEPT !.image_status_list = l],
                           "version_check"))

\* The third GET answers: the dict is returned and _async_refresh assigns it to
\* self.data.
GetVersionCheckResp ==
    /\ cloud.pc = "version_check"
    /\ cloud.saves = 0
    /\ \E l \in ResponseLists(cloud.polls, "version_check") :
         LET c == GetAnswered(cloud, "ok")
         IN CloudStep(RefreshEnded([c EXCEPT !.data = Some(Assembled(c, l)),
                                             !.last_update_success = TRUE,
                                             !.frame_status_list = <<>>,
                                             !.image_status_list = <<>>], TRUE))

\* The GET in progress raises.
GetFailed ==
    /\ cloud.pc \in SnapshotFields
    /\ cloud.saves = 0
    /\ LET c == RaiseUpdateFailed(GetAnswered(cloud, "err"))
       IN CloudStep(RefreshEnded([c EXCEPT !.frame_status_list = <<>>,
                                           !.image_status_list = <<>>], FALSE))

\* Home Assistant sets the entry up again after ConfigEntryNotReady: a new
\* coordinator over the same Store.
SetupRetry ==
    /\ cloud.phase = "not_ready"
    /\ cloud.saves = 0
    /\ CloudStep(CloudNew(cloud.store, cloud.polls, cloud.sent))

InitCloud ==
    /\ cloud \in {CloudNew(st, 0, <<>>) : st \in {Nil} \cup {Some(s) : s \in CachedSnapshots}}
    /\ local = <<>>
    /\ upl = <<>>
    /\ calc = <<>>
    /\ svc = <<>>
    /\ BleInit
    /\ bleActive = {}
    /\ ApiQuiet

NextCloud ==
    \/ LoadCache
    \/ CacheSave
    \/ PollStart
    \/ GetFrameStatusResp
    \/ GetImageStatusResp
    \/ GetVersionCheckResp
    \/ GetFailed
    \/ SetupRetry

SpecCloud == InitCloud /\ [][NextCloud]_vars

(***************************************************************************)
(* __init__.py: async_setup_entry, one setup of the entry.  The client's   *)
(* async_ensure_token is awaited first (line 70) and is seen here by its   *)
(* outcome: it returns without a request (a persisted token that is not    *)
(* expiring soon), or it sends auth requests and returns, or raises.  Then *)
(* the cache is loaded (line 88) and the first refresh runs (line 91).     *)
(***************************************************************************)
\* await api_client.async_ensure_token(): no request is needed, or a login or
\* refresh is sent.
SetupEnsureToken ==
    /\ cloud.phase = "ensure_token"
    /\ cloud.pc = "idle"
    /\ \/ CloudStep([cloud EXCEPT !.phase = "load"])
       \/ CloudStep(GetSent(cloud, "auth"))

\* The auth request answers: async_ensure_token returns and the setup goes on, or
\* its exception leaves async_setup_entry and the setup has failed.
SetupAuthResp ==
    /\ cloud.pc = "auth"
    /\ \/ CloudStep([GetAnswered(cloud, "ok") EXCEPT !.pc = "idle", !.phase = "load"])
       \/ CloudStep([GetAnswered(cloud, "err") EXCEPT !.pc = "idle", !.phase = "setup_error"])

InitSetup ==
    /\ cloud \in {[CloudNew(st, 0, <<>>) EXCEPT !.phase = "ensure_token"] :
                     st \in {Nil} \cup {Some(s) : s \in CachedSnapshots}}
    /\ local = <<>>
    /\ upl = <<>>
    /\ calc = <<>>
    /\ svc = <<>>
    /\ BleInit
    /\ bleActive = {}
    /\ ApiQuiet

NextSetup ==
    \/ SetupEnsureToken
    \/ SetupAuthResp
    \/ LoadCache
    \/ CacheSave
    \/ PollStart
    \/ GetFrameStatusResp
    \/ GetImageStatusResp
    \/ GetVersionCheckResp
    \/ GetFailed

SpecSetup == InitSetup /\ [][NextSetup]_vars

(***************************************************************************)
(* coordinator.py: InkposterBleCoordinator.  An advertisement makes the    *)
(* library ask _needs_poll; when it answers True the library runs          *)
(* _async_update (one poll at a time), and after the poll it records the   *)
(* time and whether the poll raised.  The poll's read is async_read_status *)
(* of ble.py, run in slot PollProc.                                        *)
(***************************************************************************)
MaxAdvances == 3
MaxLocalPolls == 2
PollProc == 1
_poll_interval == 300
CoreStates == {"starting", "running", "stopping"}
\* time passes between two advertisements: a second, or a second less than the interval
Advances == {1, _poll_interval - 1}

\* _needs_poll with > in place of >= (a slip)
NeedsPollStrictlyLater(hass_state, seconds_since_last_poll, resolvable) ==
    IF hass_state # "running" THEN FALSE
    ELSE IF seconds_since_last_poll = Nil THEN TRUE
    ELSE IF Val(seconds_since_last_poll) > _poll_interval THEN resolvable
    ELSE FALSE

\* _needs_poll (lines 174-185); resolvable is whether async_ble_device_from_address
\* returns a device.
_needs_poll(hass_state, seconds_since_last_poll, resolvable) ==
    IF hass_state # "running" THEN FALSE
    ELSE IF seconds_since_last_poll = Nil THEN TRUE
    ELSE IF Val(seconds_since_last_poll) >= _poll_interval THEN resolvable
    ELSE FALSE

LocalNew(hs) ==
    [hass_state |-> hs, _last_ble_status |-> Nil, last_poll |-> Nil,
     last_poll_successful |-> TRUE, clock |-> 0, advances |-> 0, pc |-> "idle",
     connectable |-> TRUE, asked |-> Nil, polls |-> 0, last_error |-> None]

\* The poll has ended with error e (None: it returned): the library notes the time
\* and the outcome.
PollEnded(l, e) ==
    [l EXCEPT !.pc = "idle", !.polls = @ + 1, !.last_error = e,
              !.last_poll = Some(l.clock), !.last_poll_successful = (e = None)]

\* async_read_status has ended in slot record b (lines 201-215): its status is stored
\* when it returned.  The mutant stores whatever the read left, None on a failure.
StoreStatusAlways(l, b) == [l EXCEPT !._last_ble_status = b.result]
StoreStatus(l, b) ==
    IF b.error = None THEN [l EXCEPT !._last_ble_status = b.result] ELSE l

LocalStep(l) ==
    /\ local' = l
    /\ UNCHANGED <<apiVars, cloud, upl, calc, svc>>

\* Home Assistant finishes starting, or begins to stop.
HassStateChange ==
    /\ local.pc = "idle"
    /\ local.hass_state # "stopping"
    /\ LocalStep([local EXCEPT !.hass_state = IF @ = "starting" THEN "running"
                                                              ELSE "stopping"])
    /\ UNCHANGED bleVars

LocalAdvance ==
    /\ local.pc = "idle"
    /\ local.advances < MaxAdvances
    /\ \E d \in Advances :
         LocalStep([local EXCEPT !.clock = @ + d, !.advances = @ + 1])
    /\ UNCHANGED bleVars

\* An advertisement arrives: the library asks _needs_poll with the age of the last
\* poll and schedules the poll when the answer is True.
Advert ==
    /\ local.pc = "idle"
    /\ local.polls < MaxLocalPolls
    /\ \E conn \in BOOLEAN, resolvable \in BOOLEAN :
         LET since  == IF local.last_poll = Nil THEN Nil
                       ELSE Some(local.clock - Val(local.last_poll))
             answer == _needs_poll(local.hass_state, since, resolvable)
         IN LocalStep([local EXCEPT
                          !.connectable = conn,
                          !.asked = Some([state |-> local.hass_state, since |-> since,
                                          resolvable |-> resolvable, answer |-> answer]),
                          !.pc = IF answer THEN "due" ELSE "idle"])
    /\ UNCHANGED bleVars

\* _async_update up to its await (lines 190-202): the device is taken from the
\* advertisement or resolved; None raises RuntimeError, else async_read_status starts.
LocalPollStart ==
    /\ local.pc = "due"
    /\ ble[PollProc].pc = "idle"
    /\ \E resolvable \in BOOLEAN :
         IF local.connectable \/ resolvable
         THEN /\ LocalStep([local EXCEPT !.pc = "reading"])
              /\ BleSet(PollProc, [BleIdle EXCEPT !.op = "read", !.pc = "connect"])
         ELSE /\ LocalStep(PollEnded(local, "RuntimeError"))
              /\ UNCHANGED ble
    /\ UNCHANGED <<bleOpen, bleActive>>

\* async_read_status has returned or raised (lines 202-215).
LocalPollEnd ==
    /\ local.pc = "reading"
    /\ ble[PollProc].pc = "done"
    /\ LocalStep(PollEnded(StoreStatus(local, ble[PollProc]), ble[PollProc].error))
    /\ BleSet(PollProc, BleIdle)
    /\ UNCHANGED <<bleOpen, bleActive>>

InitLocal ==
    /\ local \in {LocalNew(hs) : hs \in {"starting", "running"}}
    /\ cloud = <<>>
    /\ upl = <<>>
    /\ calc = <<>>
    /\ svc = <<>>
    /\ BleInit
    /\ bleActive = {}
    /\ ApiQuiet

NextLocal ==
    \/ HassStateChange
    \/ LocalAdvance
    \/ Advert
    \/ LocalPollStart
    \/ Connect(PollProc)
    \/ ReadStatusRead(PollProc)
    \/ Finally(PollProc)
    \/ LocalPollEnd

SpecLocal == InitLocal /\ [][NextLocal]_vars

\* Two callers on one device: a button or service sends a command while the
\* coordinator's presence-triggered poll reads the status.  Neither caller takes a
\* lock (button.py lines 176-197, __init__.py lines 218-239, coordinator.py line 202).
InitBlePair ==
    /\ BleInit
    /\ bleActive = BleProcs
    /\ ApiQuiet
    /\ CoordQuiet

NextBlePair ==
    \/ \E p \in BleProcs \ {PollProc} :
          \/ SendStart(p)
          \/ Connect(p)
          \/ SendReadBefore(p)
          \/ SendRetryDisconnect(p)
          \/ SendRetrySleep(p)
          \/ SendRetryConnect(p)
          \/ SendRetryRead(p)
          \/ SendNotReadyDisconnect(p)
          \/ SendWrite(p)
          \/ SendSettleSleep(p)
          \/ SendReadAfter(p)
          \/ Finally(p)
          \/ BleReturn(p)
    \/ \E p \in {PollProc} :
          \/ ReadStart(p)
          \/ Connect(p)
          \/ ReadStatusRead(p)
          \/ Finally(p)
          \/ BleReturn(p)

SpecBlePair == InitBlePair /\ [][NextBlePair]_vars

(***************************************************************************)
(* api_client.py: async_upload_and_poll and async_poll_is_converted.  The  *)
(* convert call and each poll are authenticated requests of the client,    *)
(* seen here by their outcome: a JSON body or an exception.  A body is     *)
(* stamped with the number of the poll it answers.                         *)
(***************************************************************************)
POLL_INTERVAL_SECS == 2
POLL_TIMEOUT_SECS == 120
MaxUploads == 2
\* how long a poll request takes, in seconds of time.monotonic()
RequestSecs == {0, POLL_TIMEOUT_SECS \div 2 - POLL_INTERVAL_SECS}
QueueIds == {"", "q1"}
PollStatuses == {"pending", "done", "failed"}

\* JSON bodies: the convert response (with or without queueId) and the poll
\* responses (with or without status); EmptyResponse is {}.
Body(kind, n, keys, queueId, status) ==
    [kind |-> kind, n |-> n, keys |-> keys, queueId |-> queueId, status |-> status]
EmptyResponse == Body("none", 0, {}, "", "")
ConvertBodies == {Body("convert", 0, {"queueId"}, q, "") : q \in QueueIds}
                    \cup {Body("convert", 0, {}, "", "")}
PollBodies(n) == {Body("poll", n, {"status"}, "", s) : s \in PollStatuses}
                    \cup {Body("poll", n, {}, "", "")}

\* convert_resp.get("queueId", "") and last_response.get("status", "")
GetQueueId(body) == IF "queueId" \in body.keys THEN body.queueId ELSE ""
GetStatus(body) == IF "status" \in body.keys THEN body.status ELSE ""

\* if status != "pending": break.  The mutant leaves the loop on "done" only.
BreakOnDoneOnly(status) == status = "done"
ShouldBreak(status) == status # "pending"

\* while time.monotonic() - start <= POLL_TIMEOUT_SECS (a slip: the ceiling included)
WithinTimeoutInclusive(u) == u.clock - u.start <= POLL_TIMEOUT_SECS

\* while time.monotonic() - start < POLL_TIMEOUT_SECS
WithinTimeout(u) == u.clock - u.start < POLL_TIMEOUT_SECS

UplNew(calls) ==
    [pc |-> "idle", calls |-> calls, clock |-> 0, start |-> 0, queue_id |-> "",
     attempts |-> 0, last_response |-> EmptyResponse, sleeps |-> 0, sleepSecs |-> 0,
     firstNonPending |-> 0, result |-> Nil, error |-> None]

UplStep(u) ==
    /\ upl' = u
    /\ UNCHANGED <<bleVars, apiVars, cloud, local, calc, svc>>

UplReturn(u, body) == [u EXCEPT !.pc = "done", !.result = Some(body)]
UplRaise(u, e) == [u EXCEPT !.pc = "done", !.error = e]

\* The head of the while loop with the ceiling turned into an error (a slip).
LoopHeadRaisesOnTimeout(u) ==
    IF WithinTimeout(u)
    THEN [u EXCEPT !.attempts = @ + 1, !.pc = "poll"]
    ELSE UplRaise(u, "TimeoutError")

\* The head of the while loop: another poll is sent, or last_response is returned.
LoopHead(u) ==
    IF WithinTimeout(u)
    THEN [u EXCEPT !.attempts = @ + 1, !.pc = "poll"]
    ELSE UplReturn(u, u.last_response)

\* A service or the media player calls async_upload_and_poll.
UploadStart ==
    /\ upl.pc = "idle"
    /\ upl.calls < MaxUploads
    /\ UplStep([UplNew(upl.calls + 1) EXCEPT !.pc = "convert"])

\* async_upload_convert ends (lines 382-388): without a queue id its response is
\* returned, with one async_poll_is_converted starts.
ConvertResp ==
    /\ upl.pc = "convert"
    /\ \/ UplStep(UplRaise(upl, "ClientError"))
       \/ \E body \in ConvertBodies, d \in RequestSecs :
            LET u == [upl EXCEPT !.clock = @ + d, !.queue_id = GetQueueId(body)]
            IN IF u.queue_id = ""
               THEN UplStep(UplReturn(u, body))
               ELSE UplStep(LoopHead([u EXCEPT !.start = u.clock]))

\* A poll request ends (lines 357-370).
PollResp ==
    /\ upl.pc = "poll"
    /\ \E d \in RequestSecs :
         LET u == [upl EXCEPT !.clock = @ + d]
         IN \/ UplStep(UplRaise(u, "ClientError"))
            \/ \E body \in PollBodies(u.attempts) :
                 LET u1 == [u EXCEPT !.last_response = body,
                                     !.firstNonPending =
                                         IF @ = 0 /\ GetStatus(body) # "pending"
                                         THEN u.attempts ELSE @]
                 IN IF ShouldBreak(GetStatus(body))
                    THEN UplStep(UplReturn(u1, u1.last_response))
                    ELSE UplStep([u1 EXCEPT !.pc = "sleep"])

\* await asyncio.sleep(POLL_INTERVAL_SECS) ends, and the loop condition is tested.
SleepDone ==
    /\ upl.pc = "sleep"
    /\ UplStep(LoopHead([upl EXCEPT !.clock = @ + POLL_INTERVAL_SECS,
                                    !.sleeps = @ + 1,
                                    !.sleepSecs = @ + POLL_INTERVAL_SECS]))

\* The caller has taken the outcome.
UploadDone ==
    /\ upl.pc = "done"
    /\ UplStep(UplNew(upl.calls))

InitUpload ==
    /\ upl = UplNew(0)
    /\ cloud = <<>>
    /\ local = <<>>
    /\ calc = <<>>
    /\ svc = <<>>
    /\ BleInit
    /\ bleActive = {}
    /\ ApiQuiet

NextUpload ==
    \/ UploadStart
    \/ ConvertResp
    \/ PollResp
    \/ SleepDone
    \/ UploadDone

SpecUpload == InitUpload /\ [][NextUpload]_vars

\* The same, where every poll request ends (with a body or an exception: the HTTP
\* client's timeout) and every asyncio.sleep ends.
SpecUploadFair == SpecUpload /\ WF_vars(PollResp) /\ WF_vars(SleepDone)

(***************************************************************************)
(* __init__.py: the upload-image services (_handle_upload_image_url and    *)
(* _handle_upload_image_data).  The handler awaits async_upload_and_poll,  *)
(* then _trigger_ble_fetch, whose async_send_command runs as local-link    *)
(* operation of the one caller, then the coordinator's refresh request.    *)
(***************************************************************************)
ServiceProcs == {1}
Services == {"upload_image_url", "upload_image_data"}

SvcNew == [pc |-> "idle", service |-> "", log |-> <<>>, fetchError |-> None, error |-> None]
SvcDid(v, ev) == [v EXCEPT !.log = Append(@, ev)]
SvcEnds(v, e) == [v EXCEPT !.pc = "done", !.error = e]

\* await rd.api_client.async_upload_and_poll(frame_uuid, image_bytes, "image/jpeg")
\* up to its first await.
UploadAndPollCalled ==
    upl' = [UplNew(upl.calls + 1) EXCEPT !.pc = "convert"]

\* The service is called: no integration or undecodable image data raises, an
\* entry without frame uuid returns; the url service then downloads the image, the
\* data service goes on to the upload.
ServiceCall ==
    /\ svc.pc = "idle"
    /\ upl.pc = "idle"
    /\ upl.calls < MaxUploads
    /\ \E s \in Services :
         LET v == [SvcNew EXCEPT !.service = s]
         IN \/ svc' = SvcEnds(v, "ValueError") /\ UNCHANGED upl
            \/ svc' = SvcEnds(v, None) /\ UNCHANGED upl
            \/ /\ s = "upload_image_url"
               /\ svc' = [v EXCEPT !.pc = "download"]
               /\ UNCHANGED upl
            \/ /\ s = "upload_image_data"
               /\ svc' = [v EXCEPT !.pc = "upload"]
               /\ UploadAndPollCalled
    /\ UNCHANGED <<bleVars, apiVars, cloud, local, calc>>

\* async with session.get(url): raise_for_status, read.
ServiceDownloaded ==
    /\ svc.pc = "download"
    /\ \/ svc' = SvcEnds(svc, "ClientError") /\ UNCHANGED upl
       \/ svc' = [svc EXCEPT !.pc = "upload"] /\ UploadAndPollCalled
    /\ UNCHANGED <<bleVars, apiVars, cloud, local, calc>>

\* The command _trigger_ble_fetch sends: FETCH, built from the action, signed with
\* the entry's shared key if it has one.
FetchCommand(k) ==
    [BleIdle EXCEPT !.op = "send", !.pc = "connect", !.action = Some(BLE_ACTION_FETCH),
                    !.skey_hex = k, !.callerKey = k]

\* async_upload_and_poll has ended.  Its exception leaves the handler.  When it has
\* returned, _trigger_ble_fetch runs up to its first await: without a BLE address,
\* or with a device that is not reachable, it returns; else async_send_command
\* starts.
ServiceUploadEnded(p) ==
    /\ svc.pc = "upload"
    /\ upl.pc = "done"
    /\ upl' = UplNew(upl.calls)
    /\ IF upl.error # None
       THEN svc' = SvcEnds(svc, upl.error) /\ UNCHANGED ble
       ELSE LET v == SvcDid(svc, "upload_returned")
            IN \/ /\ svc' = [SvcDid(v, "fetch_skipped") EXCEPT !.pc = "refresh"]
                  /\ UNCHANGED ble
               \/ \E k \in CallerKeys :
                     /\ svc' = [v EXCEPT !.pc = "fetch"]
                     /\ BleSet(p, FetchCommand(k))
    /\ UNCHANGED <<bleOpen, bleActive, apiVars, cloud, local, calc>>

\* A slip: async_send_command is awaited outside any try, so its exception leaves
\* the handler.
ServiceFetchEndedRaises(p) ==
    /\ svc.pc = "fetch"
    /\ ble[p].pc = "done"
    /\ BleSet(p, BleIdle)
    /\ svc' = IF ble[p].error = None
              THEN [SvcDid(svc, "fetch_sent") EXCEPT !.pc = "refresh"]
              ELSE SvcEnds([SvcDid(svc, "fetch_failed") EXCEPT !.fetchError = ble[p].error],
                           ble[p].error)
    /\ UNCHANGED <<bleOpen, bleActive, apiVars, cloud, local, upl, calc>>

\* async_send_command has ended: its exception is logged and dropped; the handler
\* goes on.
ServiceFetchEnded(p) ==
    /\ svc.pc = "fetch"
    /\ ble[p].pc = "done"
    /\ BleSet(p, BleIdle)
    /\ svc' = IF ble[p].error = None
              THEN [SvcDid(svc, "fetch_sent") EXCEPT !.pc = "refresh"]
              ELSE [SvcDid(svc, "fetch_failed") EXCEPT !.pc = "refresh",
                                                      !.fetchError = ble[p].error]
    /\ UNCHANGED <<bleOpen, bleActive, apiVars, cloud, local, upl, calc>>

\* await rd.cloud_coordinator.async_request_refresh(); the handler returns.
ServiceRefresh ==
    /\ svc.pc = "refresh"
    /\ svc' = SvcEnds(SvcDid(svc, "refresh_requested"), None)
    /\ UNCHANGED <<bleVars, apiVars, cloud, local, upl, calc>>

\* The service call has ended; the next one may come.
ServiceDone ==
    /\ svc.pc = "done"
    /\ svc' = SvcNew
    /\ UNCHANGED <<bleVars, apiVars, cloud, local, upl, calc>>

InitService ==
    /\ svc = SvcNew
    /\ upl = UplNew(0)
    /\ cloud = <<>>
    /\ local = <<>>
    /\ calc = <<>>
    /\ BleInit
    /\ bleActive = {}
    /\ ApiQuiet

NextService ==
    \/ ServiceCall
    \/ ServiceDownloaded
    \/ ConvertResp
    \/ PollResp
    \/ SleepDone
    \/ ServiceRefresh
    \/ ServiceDone
    \/ \E p \in ServiceProcs :
          \/ ServiceUploadEnded(p)
          \/ Connect(p)
          \/ SendReadBefore(p)
          \/ SendRetryDisconnect(p)
          \/ SendRetrySleep(p)
          \/ SendRetryConnect(p)
          \/ SendRetryRead(p)
          \/ SendNotReadyDisconnect(p)
          \/ SendWrite(p)
          \/ SendSettleSleep(p)
          \/ SendReadAfter(p)
          \/ Finally(p)
          \/ ServiceFetchEnded(p)

SpecService == InitService /\ [][NextService]_vars

(***************************************************************************)
(* The pure functions of ble.py and coordinator.py, applied once to an     *)
(* argument drawn from a bounded set.                                      *)
(***************************************************************************)
MaxItems == 2
Applied(fn) == calc.fn = fn /\ calc.out # Nil
Call(fn, arg) == [fn |-> fn, arg |-> arg, out |-> Nil]
Apply(fn, out) ==
    /\ calc.fn = fn
    /\ calc.out = Nil
    /\ calc' = [calc EXCEPT !.out = Some(out)]
    /\ UNCHANGED <<bleVars, apiVars, cloud, local, upl, svc>>

\* Response lists of up to MaxItems items over two frames: an item is a dict from some
\* of the frames to a sub-object, or something that is not a dict.
ExtractUuids == {"frameA", "frameB"}
SubObjects == {[batteryCapacity |-> 87], [batteryCapacity |-> 12]}
ExtractItems ==
    {[isdict |-> TRUE, d |-> f] : f \in UNION {[U -> SubObjects] : U \in SUBSET ExtractUuids}}
        \cup {NotADict}
ExtractCalls ==
    {Call("_extract_frame_data", [response_list |-> l, frame_uuid |-> u]) :
        l \in UNION {[1..k -> ExtractItems] : k \in 0..MaxItems}, u \in ExtractUuids}

\* Byte strings for decode_status: three 20-byte heads, 8-byte model fields that are
\* text, text cut by a NUL, full-width text, or not valid UTF-8, then trailing bytes;
\* and the same cut short of 28 bytes.  The top byte of a 32-bit field stays below
\* 128, so that its value is a number the checker can hold.
DecodeHeads ==
    {SubSeq(DeviceRaw(1, 0), 1, 20),
     SubSeq(DeviceRaw(513, STATUS_FLAG_SECURE_MODE + STATUS_FLAG_GENERAL_ERROR), 1, 20),
     [i \in 1..20 |-> IF i \in {12, 16, 20} THEN 127 ELSE 255]}
ModelFields ==
    {<<87, 49, 51, 51, 48, 0, 0, 0>>,        \* "W1330"
     <<65, 66, 67, 68, 69, 70, 71, 72>>,     \* full width, no NUL
     <<0, 65, 66, 67, 68, 69, 70, 71>>,      \* empty: NUL first
     <<65, 0, 255, 255, 255, 255, 255, 255>>,\* invalid bytes after the NUL
     <<255, 254, 65, 0, 0, 0, 0, 0>>,        \* bytes that are never valid
     <<195, 40, 65, 0, 0, 0, 0, 0>>,         \* lead byte without its continuation
     <<65, 66, 67, 68, 69, 70, 226, 130>>,   \* a sequence cut by the end of the field
     <<237, 160, 128, 0, 0, 0, 0, 0>>,       \* an encoded surrogate
     <<195, 169, 226, 130, 172, 0, 0, 0>>}   \* two valid multi-byte characters
Trailers == {<<>>, <<0>>, <<255, 1>>}
ShortLens == {0, 1, BLE_STATUS_LEN - 1}

\* str.encode("utf-8") of a sequence of code points.
Utf8Char(cp) ==
    IF cp < 128 THEN <<cp>>
    ELSE IF cp < 2048 THEN <<192 + (cp \div 64), 128 + (cp % 64)>>
    ELSE IF cp < 65536
         THEN <<224 + (cp \div 4096), 128 + ((cp \div 64) % 64), 128 + (cp % 64)>>
    ELSE <<240 + (cp \div 262144), 128 + ((cp \div 4096) % 64),
           128 + ((cp \div 64) % 64), 128 + (cp % 64)>>

RECURSIVE Utf8Encode(_)
Utf8Encode(cps) ==
    IF cps = <<>> THEN <<>> ELSE Utf8Char(Head(cps)) \o Utf8Encode(Tail(cps))

\* The 8-byte model field: the text, then NUL bytes up to the width of the field.
ModelField(model_str) ==
    LET bs == Utf8Encode(model_str)
    IN bs \o [i \in 1..(8 - Len(bs)) |-> 0]

\* The 28 bytes decode_status reads a frame from: the inverse of its layout, with
\* bytes 16..19 one little-endian word that holds fw_build in its low half, then
\* fw_minor, then fw_major in its top byte.
EncodeStatus(f) ==
    Bytes2(f.company_id) \o Bytes2(f.msg_seq)
        \o <<f.version, f.capacity, f.wifi_quality, f.key_seq>>
        \o Bytes4(f.status_original) \o Bytes4(f.jobs)
        \o Bytes4(f.fw_major * 16777216 + f.fw_minor * 65536 + f.fw_build)
        \o ModelField(f.model_str)

\* The 28 bytes with the fields laid out one after the other in the order the
\* record names them: fw_major, fw_minor, then fw_build as a little-endian u16.
EncodeListed(f) ==
    Bytes2(f.company_id) \o Bytes2(f.msg_seq)
        \o <<f.version, f.capacity, f.wifi_quality, f.key_seq>>
        \o Bytes4(f.status_original) \o Bytes4(f.jobs)
        \o <<f.fw_major, f.fw_minor>> \o Bytes2(f.fw_build)
        \o ModelField(f.model_str)

\* Frames with in-range fields: the smallest values, a typical frame, and the
\* largest values (of a 32-bit field, and of fw_major, which is the top byte of
\* one, the largest the checker can hold); model strings that are empty, ASCII,
\* full-width ASCII, multi-byte text, and full-width four-byte characters.
FrameNumbers ==
    {[company_id |-> 0, msg_seq |-> 0, version |-> 0, capacity |-> 0, wifi_quality |-> 0,
      key_seq |-> 0, status_original |-> 0, jobs |-> 0,
      fw_major |-> 0, fw_minor |-> 0, fw_build |-> 0],
     [company_id |-> 4660, msg_seq |-> 513, version |-> 1, capacity |-> 87,
      wifi_quality |-> 3, key_seq |-> 2,
      status_original |-> STATUS_FLAG_SECURE_MODE + STATUS_FLAG_DATETIME_SYNCED,
      jobs |-> 66051, fw_major |-> 1, fw_minor |-> 2, fw_build |-> 773],
     [company_id |-> 65535, msg_seq |-> 65535, version |-> 255, capacity |-> 255,
      wifi_quality |-> 255, key_seq |-> 255, status_original |-> 2147483647,
      jobs |-> 2147483647, fw_major |-> 127, fw_minor |-> 255, fw_build |-> 65535]}
ModelStrings ==
    {<<>>, <<87, 49, 51, 51, 48>>, <<65, 66, 67, 68, 69, 70, 71, 72>>,
     <<233, 8364, 65>>, <<128512, 1114111>>}
WithModel(n, m) ==
    [company_id |-> n.company_id, msg_seq |-> n.msg_seq, version |-> n.version,
     capacity |-> n.capacity, wifi_quality |-> n.wifi_quality, key_seq |-> n.key_seq,
     status_original |-> n.status_original, jobs |-> n.jobs, fw_major |-> n.fw_major,
     fw_minor |-> n.fw_minor, fw_build |-> n.fw_build, model_str |-> m]
Frames == {WithModel(n, m) : n \in FrameNumbers, m \in ModelStrings}

\* The frames whose field-after-field bytes 16..19 are a word the checker can hold.
ListedFrames == {f \in Frames : f.fw_build < 32768}

DecodeRaws ==
    {h \o m \o t : h \in DecodeHeads, m \in ModelFields, t \in Trailers}
        \cup {SubSeq(h \o m, 1, n) : h \in DecodeHeads, m \in ModelFields, n \in ShortLens}
        \cup {EncodeStatus(f) : f \in Frames} \cup {EncodeListed(f) : f \in ListedFrames}
DecodeCalls == {Call("decode_status", raw) : raw \in DecodeRaws}

\* decode_status applied: the error it raises, or the frame it returns.
ApplyDecode ==
    Apply("decode_status",
          IF TooShort(calc.arg)
          THEN [error |-> "ValueError", frame |-> Nil]
          ELSE [error |-> None, frame |-> Some(decode_status(calc.arg))])

ApplyExtract ==
    Apply("_extract_frame_data",
          _extract_frame_data(calc.arg.response_list, calc.arg.frame_uuid))

\* Bitmasks for parse_status_flags and the bit to flip in each: no bit, the
\* scenario mask 0x42, every other bit, every bit below bit 31, and a mixed
\* pattern; bits 0 to 30 (bit 31 makes a number the checker cannot hold).
RECURSIVE Pow2(_)
Pow2(k) == IF k = 0 THEN 1 ELSE 2 * Pow2(k - 1)
FlagBits == {Pow2(k) : k \in 0..30}
FlagMasks == {0, 66, 1431655765, 2147483647, 403775}
\* mask ^ bit
Flipped(mask, bit) == IF (mask \div bit) % 2 = 1 THEN mask - bit ELSE mask + bit
FlagCalls ==
    {Call("parse_status_flags", [mask |-> m, bit |-> b]) : m \in FlagMasks, b \in FlagBits}

\* parse_status_flags applied to the mask and to the mask with the bit flipped.
ApplyParseFlags ==
    Apply("parse_status_flags",
          [flags   |-> parse_status_flags(calc.arg.mask),
           flipped |-> parse_status_flags(Flipped(calc.arg.mask, calc.arg.bit))])

\* Inputs of build_json_command: two actions, no extra, an empty and a non-empty
\* extra, no key, an empty and a device key, and sequence numbers at the byte and
\* 16-bit boundaries.
BuildSeqs == {0, 1, 255, 256, 65535, 65536}
BuildCalls ==
    {Call("build_json_command", [action |-> a, extra |-> e, msg_seq |-> q, skey_hex |-> k]) :
        a \in {BLE_ACTION_FETCH, BLE_ACTION_FETCH + 1}, e \in {None, "{}", "ssid"},
        q \in BuildSeqs, k \in CallerKeys}

\* build_json_command applied to the inputs, and to the same inputs with the
\* sequence number one lower and one higher.
ApplyBuild ==
    LET a == calc.arg IN
    Apply("build_json_command",
          [frame |-> build_json_command(a.action, a.extra, a.msg_seq, a.skey_hex),
           prev  |-> build_json_command(a.action, a.extra, a.msg_seq - 1, a.skey_hex),
           next  |-> build_json_command(a.action, a.extra, a.msg_seq + 1, a.skey_hex)])

PureCalls == ExtractCalls \cup DecodeCalls \cup FlagCalls \cup BuildCalls

InitPure ==
    /\ calc \in PureCalls
    /\ svc = <<>>
    /\ cloud = <<>>
    /\ local = <<>>
    /\ upl = <<>>
    /\ BleInit
    /\ bleActive = {}
    /\ ApiQuiet

NextPure ==
    \/ ApplyExtract
    \/ ApplyDecode
    \/ ApplyParseFlags
    \/ ApplyBuild

SpecPure == InitPure /\ [][NextPure]_vars

(***************************************************************************)
(* Properties of the local-link operations                                 *)
(***************************************************************************)
Ended(p) == ble[p].pc \in {"done", "idle"}
Count(log, ev) == Cardinality({i \in 1..Len(log) : log[i] = ev})
Ready(d) == parse_status_flags(d.status_original).launcher_cmd_ready
Secure(d) == parse_status_flags(d.status_original).secure_mode

\* The status read that precedes the write: the retry read when the initial read
\* reported not ready, the initial read otherwise.
ReadBeforeWrite(b) == IF Ready(b.reads[1]) THEN b.reads[1] ELSE b.reads[2]

\* C1: when a send-command or read-status operation has ended, on whatever path,
\* none of the connections it established is still open.
C1_ConnectionsReleased ==
    \A p \in BleProcs : Ended(p) => \A c \in ble[p].est : <<p, c>> \notin bleOpen

\* A send-command operation that reconnected and then failed on the retry read.
C1_Witness ==
    \E p \in BleProcs :
        /\ ble[p].pc = "done" /\ ble[p].op = "send"
        /\ ble[p].est = {1, 2} /\ ble[p].error = "ReadError"
        /\ bleOpen = {}

\* C2: the readiness retry is one cycle at most (disconnect, 3 s wait, reconnect,
\* one re-read); a second not-ready read fails the operation with DeviceNotReady;
\* a command is written only after a read that reported ready, after at most one
\* reconnect.
C2_OneRetryCycle ==
    \A p \in BleProcs :
        LET b == ble[p] IN
        b.op = "send" =>
            /\ Count(b.log, "connect") + Count(b.log, "connect_err") <= 2
            /\ Count(b.log, "sleep3") <= 1
            /\ (b.pc = "write" \/ b.written # Nil) =>
                    /\ Val(b.flags).launcher_cmd_ready
                    /\ Ready(ReadBeforeWrite(b))
            /\ (Len(b.reads) >= 1 /\ ~Ready(b.reads[1])) =>
                    /\ \A i \in 1..Len(b.log) :
                          /\ i = 3 => b.log[i] = "disconnect"
                          /\ i = 4 => b.log[i] = "sleep3"
                          /\ i = 5 => b.log[i] \in {"connect", "connect_err"}
                          /\ (i = 6 /\ b.log[5] = "connect") => b.log[i] \in {"read", "read_err"}
                    /\ b.pc \notin {"write", "settle_sleep", "read_after"} \/ Len(b.reads) >= 2
            /\ (Len(b.reads) >= 2 /\ ~Ready(b.reads[1]) /\ ~Ready(b.reads[2])) =>
                    /\ b.pc \in {"notready_disconnect", "finally", "done"}
                    /\ b.written = Nil
                    /\ Len(b.reads) = 2
                    /\ b.pc \in {"finally", "done"} => b.error = "DeviceNotReady"

\* A command written after the retry read reported ready.
C2_Witness ==
    \E p \in BleProcs :
        /\ ble[p].written # Nil
        /\ Len(ble[p].reads) >= 2 /\ ~Ready(ble[p].reads[1]) /\ Ready(ble[p].reads[2])
        /\ Count(ble[p].log, "sleep3") = 1

\* C3: a frame the operation signs is signed with the fallback key whenever the
\* status read before the write reports secureMode = false, whatever key the
\* caller gave; the caller's key signs only when that read reported secure mode.
C3_FallbackKeyUnlessSecure ==
    \A p \in BleProcs :
        LET b == ble[p] IN
        (b.op = "send" /\ b.action # Nil /\ (b.pc = "write" \/ b.written # Nil)) =>
            LET frame == Val(b.command_bytes) IN
            /\ ~Secure(ReadBeforeWrite(b)) => frame.mac.key = BLE_DEFAULT_SKEY_HEX
            /\ frame.mac.key # BLE_DEFAULT_SKEY_HEX => Secure(ReadBeforeWrite(b))

\* The caller gave a device key, the device is not in secure mode, the frame was written.
C3_Witness ==
    \E p \in BleProcs :
        /\ ble[p].written # Nil /\ ble[p].action # Nil
        /\ ble[p].callerKey = "devicekey"
        /\ ~Secure(ReadBeforeWrite(ble[p]))
        /\ Val(ble[p].written).mac.key = BLE_DEFAULT_SKEY_HEX
        /\ \E i \in 1..Len(ble[p].log) : ble[p].log[i] = "write"

\* C4: the sequence number under the MAC of a frame built from an action code is
\* the msg_seq of the most recent status read before the write.
C4_SeqFromLatestRead ==
    \A p \in BleProcs :
        LET b == ble[p] IN
        (b.op = "send" /\ b.action # Nil /\ (b.pc = "write" \/ b.written # Nil)) =>
            Val(b.command_bytes).mac.msg[1] = SeqLe16(ReadBeforeWrite(b).msg_seq)

\* A retry happened, the two reads carried different sequence numbers, and the
\* written frame carries the second.
C4_Witness ==
    \E p \in BleProcs :
        LET b == ble[p] IN
        /\ b.written # Nil /\ b.action # Nil
        /\ Len(b.reads) >= 2 /\ ~Ready(b.reads[1])
        /\ b.reads[1].msg_seq # b.reads[2].msg_seq
        /\ Val(b.written).mac.msg[1] = SeqLe16(b.reads[2].msg_seq)

(***************************************************************************)
(* Properties of the cloud client.                                         *)
(***************************************************************************)
PhaseAuths(a, phase) == SelectSeq(a.auths, LAMBDA x : x.phase = phase)
Last(q) == q[Len(q)]
\* time >= expiresAt - 3600 seconds
ExpiringSoonAt(tk, t) == t >= tk.expires_at - 3600
HasRecoveryLogin(a) == \E i \in 1..Len(a.auths) : a.auths[i].phase = "recover" /\ a.auths[i].kind = "login"

\* C5: one request calls the endpoint at most twice; the second call is made
\* exactly when the first response was 401 and the recovery (its refresh, or its
\* login after the refresh failed) succeeded, and it carries the access token that
\* recovery obtained.
C5_RetryOnceAfterRecovery ==
    \A t \in Tasks :
        LET a   == api[t]
            rec == PhaseAuths(a, "recover")
        IN /\ Len(a.sent) <= 2
           /\ Len(a.sent) = 2 =>
                /\ a.resp # <<>> /\ a.resp[1] = 401
                /\ rec # <<>> /\ Last(rec).out = "ok"
                /\ rec[1].kind = "refresh"
                /\ Len(rec) = 2 => rec[1].out # "ok" /\ rec[2].kind = "login"
                /\ Len(rec) <= 2
                /\ a.sent[2] = Last(rec).access
           /\ (rec # <<>> /\ Last(rec).out = "ok") => Len(a.sent) = 2
           /\ rec # <<>> => a.resp # <<>> /\ a.resp[1] = 401

\* A request whose recovery fell back to a login was retried and returned a value.
C5_Witness ==
    \E t \in Tasks :
        /\ api[t].pc = "done" /\ api[t].result = "value"
        /\ Len(api[t].sent) = 2 /\ api[t].sent[2] # api[t].sent[1]
        /\ Last(PhaseAuths(api[t], "recover")).kind = "login"

\* The statuses a request surfaces as a failure, given the statuses that count as bad:
\* no value is returned for a bad final status, and a bad status on the retried call,
\* or a bad status other than 401 on the first call, ends the request with an error,
\* without another call and without another auth request.
BadStatusSurfaced(Bad(_)) ==
    \A t \in Tasks :
        LET a == api[t]
        IN /\ (a.pc = "done" /\ a.result = "value") => (a.resp # <<>> /\ ~Bad(Last(a.resp)))
           /\ \A i \in 1..Len(a.resp) :
                (Bad(a.resp[i]) /\ (i = 2 \/ a.resp[i] # 401)) =>
                    /\ a.pc = "done" /\ a.result = "error"
                    /\ i = Len(a.resp) /\ Len(a.sent) = i
                    /\ i = 1 => PhaseAuths(a, "recover") = <<>>
                    /\ \A j \in 1..Len(a.auths) : a.auths[j].out # "pending"
Non2xx(status) == status < 200 \/ status > 299
ErrorStatus(status) == status >= 400

C7_EnsureSerialized ==
    /\ \A t \in Tasks : InCritical(api[t]) => lock = t
    /\ \A t, u \in Tasks :
         (/\ t # u
          /\ api[u].waited = "ensure" /\ api[u].entered
          /\ api[t].n < api[u].n
          /\ api[t].ensRet \in {"refreshed", "login"}
          /\ ~ExpiringSoonAt(api[t].ensTokAfter, api[t].retNow))
         => /\ api[u].ensTokBefore = api[t].ensTokAfter
            /\ PhaseAuths(api[u], "ensure") = <<>>
            /\ api[u].ensRet = "fast"

\* A second caller waited while the first logged in, and then returned at once.
C7_Witness ==
    \E t, u \in Tasks :
        /\ t # u
        /\ api[u].waited = "ensure" /\ api[u].entered /\ api[u].ensRet = "fast"
        /\ api[u].auths = <<>>
        /\ api[t].n < api[u].n
        /\ api[t].ensRet = "login"
        /\ api[u].ensTokBefore = api[t].ensTokAfter

\* C8 as stated: of two requests that received their 401 concurrently (the second
\* while the first held the lock for its recovery), at most one issues a login.
C8_AtMostOneRecoveryLogin ==
    \A t, u \in Tasks :
        (t # u /\ api[u].recOverlap = <<t, api[t].n>>)
        => ~(HasRecoveryLogin(api[t]) /\ HasRecoveryLogin(api[u]))

\* C9 as stated: whenever async_ensure_token returns normally the client holds a
\* non-empty access token with time < expiresAt - 3600 seconds.
C9_ReturnsUnexpiringToken ==
    \A t \in Tasks :
        api[t].ensRet \in {"loaded", "fast", "kept", "refreshed", "login"}
        => /\ api[t].ensTokAfter.access_token # 0
           /\ ~ExpiringSoonAt(api[t].ensTokAfter, api[t].retNow)

\* C9, amended: when async_ensure_token returns normally on the persisted-load or
\* in-memory path, the client holds a non-empty access token with
\* time < expiresAt - 3600 seconds; when it returns after a refresh or login, the client
\* holds the accessToken and expiresIn of that response as they were received.
C9_ReturnsCheckedOrReceivedToken ==
    \A t \in Tasks :
        LET a   == api[t]
            ens == PhaseAuths(a, "ensure")
        IN /\ a.ensRet \in {"loaded", "fast", "kept"}
              => /\ a.ensTokAfter.access_token # 0
                 /\ ~ExpiringSoonAt(a.ensTokAfter, a.retNow)
           /\ a.ensRet \in {"refreshed", "login"}
              => /\ ens # <<>> /\ Last(ens).out = "ok"
                 /\ Last(ens).kind = (IF a.ensRet = "login" THEN "login" ELSE "refresh")
                 /\ a.ensTokAfter.access_token = Last(ens).access
                 /\ a.ensTokAfter.expires_at = Last(ens).expires

\* async_ensure_token returned after a login whose token expires within the hour.
C9_Witness ==
    \E t \in Tasks :
        /\ api[t].ensRet = "login"
        /\ ExpiringSoonAt(api[t].ensTokAfter, api[t].retNow)
        /\ api[t].ensTokAfter.access_token # 0

\* C10: with an in-memory access token held, async_ensure_token issues an auth request,
\* a refresh first, if and only if time >= expiresAt - 3600 seconds; otherwise it
\* returns with no auth request and the token state unchanged.
C10_RefreshIffExpiringSoon ==
    \A t \in Tasks :
        LET a   == api[t]
            ens == PhaseAuths(a, "ensure")
        IN (a.entered /\ a.ensHeld) =>
              IF ExpiringSoonAt(a.ensTokBefore, a.entryNow)
              THEN /\ ens # <<>>
                   /\ ens[1].kind = "refresh"
                   /\ ens[1].bearer = a.ensTokBefore.access_token
              ELSE /\ ens = <<>>
                   /\ a.ensRet = "fast"
                   /\ a.ensTokAfter = a.ensTokBefore
                   /\ a.retNow = a.entryNow

\* A held token that expires 30 minutes from now made async_ensure_token refresh.
C10_Witness ==
    \E t \in Tasks :
        /\ api[t].entered /\ api[t].ensHeld
        /\ api[t].ensTokBefore.expires_at - api[t].entryNow = 1800
        /\ PhaseAuths(api[t], "ensure") # <<>>
        /\ PhaseAuths(api[t], "ensure")[1].kind = "refresh"

\* C11: with no token in memory and a persisted token whose expires_at is in the
\* past, async_ensure_token sends a refresh with the persisted token before any
\* login, and sends a login only after that refresh failed.
C11_ExpiredPersistedRefreshFirst ==
    \A t \in Tasks :
        LET a   == api[t]
            ens == PhaseAuths(a, "ensure")
        IN (a.loaded # Nil /\ ~a.ensHeld /\ Val(a.loaded).expires_at <= a.entryNow) =>
              /\ ens # <<>>
              /\ ens[1].kind = "refresh"
              /\ ens[1].bearer = Val(a.loaded).access_token
              /\ \A i \in 1..Len(ens) :
                    ens[i].kind = "login" =>
                        /\ i > 1
                        /\ ens[i - 1].kind = "refresh"
                        /\ ens[i - 1].out \notin {"ok", "pending"}

\* An expired persisted token was refreshed, the refresh failed, and a login followed.
C11_Witness ==
    \E t \in Tasks :
        LET ens == PhaseAuths(api[t], "ensure")
        IN /\ api[t].loaded # Nil /\ ~api[t].ensHeld
           /\ Val(api[t].loaded).expires_at < api[t].entryNow
           /\ Len(ens) = 2
           /\ ens[1].kind = "refresh" /\ ens[1].out = "err"
           /\ ens[2].kind = "login" /\ ens[2].out = "ok"

\* accessToken, refreshToken, expiresAt of the client
TokenState == <<tok.access_token, tok.refresh_token, tok.expires_at>>

\* C12 as stated: every change to TokenState happens while the lock is held, whichever
\* entry point makes it: async_ensure_token, a 401 recovery, or async_login called directly.
C12_ChangesUnderLock == [][TokenState' # TokenState => lock # 0]_vars

\* C13 as stated: once the client holds a device id (generated or loaded), the device
\* id it sends never changes, across any sequence of calls, succeeding or failing.
C13_DeviceIdStable == [][tok.device_id # "" => tok'.device_id = tok.device_id]_vars

\* C14 as stated: once a login or a refresh has succeeded and every scheduled
\* _save_tokens task has run, the persisted record equals the token state in memory
\* (access token, refresh token, expiry, device id).
C14_PersistedEqualsMemory ==
    (saves = 0 /\ tok.refresh_token \notin {0, PersistedToken}) =>
        store = Some(SavedRecord(tok))

(***************************************************************************)
(* Properties of the cloud coordinator.                                    *)
(***************************************************************************)
\* The snapshot d is whole: its non-empty fields are the frame's data of one tick
\* (tick 0: the persisted record), each under its own name.
Whole(d) ==
    \E k \in 0..MaxPolls :
        \A f \in SnapshotFields :
            d[f].empty \/ (d[f].tick = k /\ d[f].get = f /\ d[f].of = FrameUuid)

\* C15: when a GET of a cloud tick fails, the tick sends no further GET and ends as a
\* failed update, the visible snapshot is the one visible before, and a later tick
\* can still run (the refresh is rescheduled, or the setup is retried).
C15_FailedTickKeepsSnapshot ==
    [][(/\ cloud.sent # <<>> /\ Len(cloud'.sent) = Len(cloud.sent)
        /\ Last(cloud.sent).out = "pending" /\ Last(cloud'.sent).out = "err") =>
           /\ cloud'.pc = "idle"
           /\ ~cloud'.last_update_success
           /\ cloud'.data = cloud.data
           /\ cloud'.scheduled \/ cloud'.phase = "not_ready"]_vars

\* The second GET of the second tick has just failed, after its first GET succeeded,
\* while the snapshot of the first tick is visible.
C15_Witness ==
    /\ cloud.sent # <<>>
    /\ Last(cloud.sent) = [tick |-> 2, get |-> "image_status", out |-> "err"]
    /\ cloud.pc = "idle" /\ cloud.scheduled
    /\ cloud.data # Nil
    /\ \A f \in SnapshotFields : Val(cloud.data)[f] = FrameData(1, f, FrameUuid)

\* C16: the visible snapshot is absent or whole: frame_status, image_status and
\* version_check all come from one successful tick or from the persisted record.
C16_SnapshotWhole == cloud.data # Nil => Whole(Val(cloud.data))

\* The snapshot of the second tick, whose image-status answer had nothing for the
\* frame, is visible while the third tick already holds the answer to its first GET.
C16_Witness ==
    /\ cloud.polls = 3 /\ cloud.pc = "image_status"
    /\ cloud.frame_status_list # <<>>
    /\ cloud.data # Nil
    /\ Val(cloud.data).frame_status = FrameData(2, "frame_status", FrameUuid)
    /\ Val(cloud.data).image_status = EmptyDict
    /\ Val(cloud.data).version_check = FrameData(2, "version_check", FrameUuid)

\* C17 as stated: once a cloud poll has succeeded and no save is pending, the persisted
\* snapshot equals the polled snapshot.
C17_PolledSnapshotPersisted ==
    (/\ cloud.sent # <<>>
     /\ Last(cloud.sent).get = "version_check" /\ Last(cloud.sent).out = "ok"
     /\ cloud.saves = 0) =>
        cloud.store = cloud.data

(***************************************************************************)
(* Properties of the local coordinator.                                    *)
(***************************************************************************)
\* async_read_status connected, read and decoded in slot record b.
ReadSucceeded(b) ==
    /\ b.pc = "done" /\ b.error = None /\ b.result # Nil
    /\ Count(b.log, "connect") = 1 /\ Count(b.log, "read") = 1

\* C18: a local poll that ends stores the decoded status exactly when the device was
\* found and the connect and the read succeeded; otherwise the poll is reported as
\* failed and the stored status is the one stored before.
C18_StatusStoredOnlyOnSuccess ==
    [][local'.polls = local.polls + 1 =>
          IF local.pc = "reading" /\ ReadSucceeded(ble[PollProc])
          THEN /\ local'._last_ble_status = Some(Last(ble[PollProc].reads))
               /\ local'.last_poll_successful
          ELSE /\ local'._last_ble_status = local._last_ble_status
               /\ ~local'.last_poll_successful
               /\ local'.last_error # None]_vars

\* A poll has failed after an earlier poll stored a status, which is still there.
C18_Witness ==
    /\ local.polls = 2
    /\ local.last_error \in {"LinkUnavailable", "ReadError", "MalformedFrame", "RuntimeError"}
    /\ ~local.last_poll_successful
    /\ local._last_ble_status # Nil

\* C19: _needs_poll answers True exactly when Home Assistant is running and either no
\* poll has happened yet, or the last poll is at least 300 seconds old and a
\* connectable device is resolvable.
C19_NeedsPollExactly ==
    local.asked # Nil =>
        LET q == Val(local.asked)
        IN q.answer <=>
              /\ q.state = "running"
              /\ \/ q.since = Nil
                 \/ Val(q.since) >= 300 /\ q.resolvable

\* Asked exactly 300 seconds after a poll, with the device resolvable: True.
C19_Witness ==
    /\ local.asked # Nil
    /\ Val(local.asked) = [state |-> "running", since |-> Some(300),
                           resolvable |-> TRUE, answer |-> TRUE]

(***************************************************************************)
(* Properties of the upload.                                               *)
(***************************************************************************)
\* async_upload_and_poll has returned a value after polling.
PolledAndReturned == upl.pc = "done" /\ upl.queue_id # "" /\ upl.result # Nil

\* The call stopped on the first non-pending response and returned it: as many polls
\* as its index, a 2-second wait between consecutive polls, nothing after it.
StoppedOnFirstNonPending ==
    /\ upl.result = Some(upl.last_response)
    /\ GetStatus(upl.last_response) # "pending"
    /\ upl.last_response.n = upl.attempts
    /\ upl.firstNonPending = upl.attempts
    /\ upl.sleeps = upl.attempts - 1
    /\ upl.sleepSecs = 2 * upl.sleeps

\* The call stopped on the ceiling: every response was pending, 120 seconds or more
\* had passed after the last wait, and the last response is returned.
StoppedOnCeiling ==
    /\ upl.result = Some(upl.last_response)
    /\ GetStatus(upl.last_response) = "pending"
    /\ upl.last_response.n = upl.attempts
    /\ upl.firstNonPending = 0
    /\ upl.sleeps = upl.attempts
    /\ upl.sleepSecs = 2 * upl.sleeps
    /\ upl.clock - upl.start >= 120

\* C20 as stated: after a convert response with a queue id the call returns the first
\* response that is not pending, after as many polls as its index, 2 seconds apart,
\* with no poll or wait after it.
C20_ReturnsFirstNonPending == PolledAndReturned => StoppedOnFirstNonPending

\* C20: after a convert response with a queue id the call returns either the first
\* response that is not pending (as many polls as its index, 2 seconds apart, nothing
\* after it) or, when 120 seconds have passed after a wait, the last pending response.
C20_FirstNonPendingOrCeiling ==
    PolledAndReturned => StoppedOnFirstNonPending \/ StoppedOnCeiling

\* Two pending responses, then a response that is not pending, returned after
\* exactly three polls and two waits.
C20_Witness ==
    /\ PolledAndReturned
    /\ StoppedOnFirstNonPending
    /\ upl.attempts = 3 /\ upl.sleeps = 2
    /\ upl.last_response.status = "failed"

\* Every poll so far was answered "pending" and the ceiling has passed.
AllPendingToCeiling ==
    /\ upl.queue_id # "" /\ upl.attempts >= 1
    /\ upl.last_response.n = upl.attempts
    /\ upl.firstNonPending = 0
    /\ upl.sleeps = upl.attempts
    /\ upl.clock - upl.start >= 120

\* C21: when every poll response is "pending" until the 120-second ceiling has passed,
\* the call ends with the last pending response as its value and with no error.
C21_TimeoutReturnsLastPending ==
    (upl.pc = "done" /\ AllPendingToCeiling) =>
        /\ upl.error = None
        /\ upl.result = Some(upl.last_response)
        /\ GetStatus(upl.last_response) = "pending"

\* Sixty polls answered at once, each pending and each followed by a 2-second wait,
\* bring the call to the ceiling.
C21_Witness ==
    /\ upl.pc = "done" /\ AllPendingToCeiling
    /\ upl.attempts = 60 /\ upl.clock - upl.start = 120
    /\ upl.result = Some(upl.last_response)

\* C22 as stated: at any time at most one operation holds an open connection to the
\* device.
C22_OneConnectionAtATime ==
    Cardinality({p \in BleProcs : \E c \in {1, 2} : <<p, c>> \in bleOpen}) <= 1

\* C23 as stated: a send-command operation that connected establishes exactly one
\* connection from its first connect to its exit.
C23_SingleConnectionLifetime ==
    \A p \in BleProcs :
        (ble[p].op = "send" /\ ble[p].pc = "done" /\ Count(ble[p].log, "connect") >= 1) =>
            Count(ble[p].log, "connect") = 1

\* C23: a send-command operation holds at most one open connection at a time; it
\* establishes exactly one connection when its initial status read reports ready (or
\* fails), and a second one, after closing the first, when that read reports not ready.
C23_OneConnectionPlusRetry ==
    \A p \in BleProcs :
        LET b        == ble[p]
            conns    == Count(b.log, "connect")
            notReady == Len(b.reads) >= 1 /\ ~Ready(b.reads[1])
        IN b.op = "send" =>
            /\ Cardinality({c \in b.est : <<p, c>> \in bleOpen}) <= 1
            /\ conns <= (IF notReady THEN 2 ELSE 1)
            /\ (b.pc = "done" /\ Len(b.reads) >= 1 /\ ~notReady) => conns = 1
            /\ (b.pc = "done" /\ notReady) => conns + Count(b.log, "connect_err") = 2

\* An operation whose first read reported not ready has ended after writing its
\* command over the second connection.
C23_Witness ==
    \E p \in BleProcs :
        /\ ble[p].op = "send" /\ ble[p].pc = "done" /\ ble[p].error = None
        /\ ~Ready(ble[p].reads[1])
        /\ Count(ble[p].log, "connect") = 2 /\ ble[p].est = {1, 2}
        /\ ble[p].written # Nil
        /\ bleOpen = {}

\* The initial and the retry status read of the operation both reported not ready,
\* and the operation has ended.
NotReadyTwice(b) ==
    /\ b.op = "send" /\ b.pc = "done"
    /\ Len(b.reads) >= 2 /\ ~Ready(b.reads[1]) /\ ~Ready(b.reads[2])

\* The operation failed with DeviceNotReady after exactly one reconnect, with n status
\* reads in total and no command write.
NotReadyFailure(b, n) ==
    /\ b.error = "DeviceNotReady" /\ b.result = Nil
    /\ Count(b.log, "connect") = 2 /\ Count(b.log, "sleep3") = 1
    /\ Count(b.log, "read") + Count(b.log, "read_err") = n
    /\ b.written = Nil /\ Count(b.log, "write") + Count(b.log, "write_err") = 0

\* C30 as stated: when the initial and the retry read both report launcherCmdReady =
\* false the operation fails with DeviceNotReady after exactly one reconnect, having
\* performed 3 status reads and no command write.
C30_NotReadyTwiceThreeReads ==
    \A p \in BleProcs : NotReadyTwice(ble[p]) => NotReadyFailure(ble[p], 3)

\* C30: when the initial and the retry read both report launcherCmdReady = false the
\* operation fails with DeviceNotReady after exactly one reconnect, having performed
\* 2 status reads (the initial one and the retry) and no command write.
C30_NotReadyTwiceTwoReads ==
    \A p \in BleProcs : NotReadyTwice(ble[p]) => NotReadyFailure(ble[p], 2)

\* Both reads reported not ready and the operation has ended with every connection
\* closed.
C30_Witness ==
    \E p \in BleProcs :
        /\ NotReadyTwice(ble[p])
        /\ ble[p].error = "DeviceNotReady"
        /\ Len(ble[p].reads) = 2
        /\ ble[p].log = <<"connect", "read", "disconnect", "sleep3", "connect", "read",
                          "disconnect", "disconnect">>
        /\ bleOpen = {}

(***************************************************************************)
(* Properties of the pure functions.                                       *)
(***************************************************************************)
\* The item at index i is a dict with the key u.
HasKey(l, i, u) == l[i].isdict /\ u \in DOMAIN l[i].d

\* C24: extraction returns the value under the frame's uuid in the first item of the
\* list that has the uuid as a key, and the empty object when no item has it.
C24_ExtractFirstMatch ==
    Applied("_extract_frame_data") =>
        LET l == calc.arg.response_list
            u == calc.arg.frame_uuid
        IN IF \E i \in 1..Len(l) : HasKey(l, i, u)
           THEN \E i \in 1..Len(l) :
                   /\ HasKey(l, i, u)
                   /\ \A j \in 1..(i - 1) : ~HasKey(l, j, u)
                   /\ Val(calc.out) = l[i].d[u]
           ELSE Val(calc.out) = EmptyDict

\* Two items hold the frame's uuid with different values, and the first one's value
\* was returned.
C24_Witness ==
    /\ Applied("_extract_frame_data")
    /\ Len(calc.arg.response_list) = 2
    /\ HasKey(calc.arg.response_list, 1, "frameA")
    /\ HasKey(calc.arg.response_list, 2, "frameA")
    /\ calc.arg.frame_uuid = "frameA"
    /\ calc.arg.response_list[2].d["frameA"] = [batteryCapacity |-> 12]
    /\ Val(calc.out) = [batteryCapacity |-> 87]

FrameFields ==
    {"company_id", "msg_seq", "version", "capacity", "wifi_quality", "key_seq",
     "status_original", "jobs", "fw_major", "fw_minor", "fw_build", "model_str"}

\* A code point a Python str can hold after decoding: not above U+10FFFF, no surrogate.
IsScalar(cp) == cp \in 0..1114111 /\ ~(cp \in 55296..57343)

\* C25: decode_status fails with ValueError (the malformed-frame error) for every
\* input shorter than 28 bytes and returns a frame for every input of 28 bytes or
\* more, whatever its bytes.
C25_DecodeFailsOnlyWhenShort ==
    Applied("decode_status") =>
        LET r == Val(calc.out) IN
        IF Len(calc.arg) < 28
        THEN r.error = "ValueError" /\ r.frame = Nil
        ELSE /\ r.error = None /\ r.frame # Nil
             /\ DOMAIN Val(r.frame) = FrameFields
             /\ \A i \in 1..Len(Val(r.frame).model_str) : IsScalar(Val(r.frame).model_str[i])

\* A 30-byte input whose model field is not valid text was decoded, with the
\* replacement character in the model string.
C25_Witness ==
    /\ Applied("decode_status")
    /\ Len(calc.arg) = 30
    /\ SubSeq(calc.arg, 21, 28) = <<255, 254, 65, 0, 0, 0, 0, 0>>
    /\ Val(calc.out).error = None
    /\ Val(Val(calc.out).frame).model_str = <<65533, 65533, 65>>

\* C26 as stated: a frame written field after field in the order the record lists
\* them (fw_major, fw_minor, fw_build) decodes to the same frame.
C26_RoundTripListedOrder ==
    Applied("decode_status") =>
        \A f \in ListedFrames :
            calc.arg = EncodeListed(f) => Val(calc.out).frame = Some(f)

\* C26: a frame written as the 28 bytes decode_status reads (little-endian fields,
\* the firmware version as one 32-bit word: build, minor, major from the low byte
\* up, the model text NUL-padded to 8 bytes) decodes to the same frame, field for
\* field.
C26_RoundTripPackedFirmware ==
    Applied("decode_status") =>
        \A f \in Frames :
            calc.arg = EncodeStatus(f) =>
                /\ Val(calc.out).error = None
                /\ Val(calc.out).frame = Some(f)

\* The typical frame with a multi-byte model string went through encode and decode.
C26_Witness ==
    /\ Applied("decode_status")
    /\ \E f \in Frames :
          /\ f.fw_major = 1 /\ f.fw_minor = 2 /\ f.fw_build = 773
          /\ f.model_str = <<233, 8364, 65>>
          /\ calc.arg = EncodeStatus(f)
          /\ SubSeq(calc.arg, 17, 20) = <<5, 3, 2, 1>>
          /\ Val(calc.out).frame = Some(f)

\* The status bit table: the bit each named flag stands for.
FlagTable ==
    [general_error |-> 1, battery_low |-> 2, battery_charging |-> 4,
     battery_charging_low |-> 8, battery_full |-> 16, secure_mode |-> 64,
     user_interaction_required |-> 128, wifi_connection_error |-> 256,
     wifi_link_ok |-> 512, server_connection_error |-> 1024,
     server_socket_link_ok |-> 2048, sync_error |-> 4096, fw_update_error |-> 8192,
     fw_update_ready |-> 65536, launcher_cmd_ready |-> 131072, datetime_synced |-> 262144]

FlagNames == DOMAIN FlagTable

\* The names of the flags that are true in a decoded flag record.
FlagsOn(flags) == {n \in DOMAIN flags : flags[n]}

\* C27: for every bitmask and every bit, flipping that bit flips exactly the flag
\* the bit table gives for it and leaves every other flag as it was; a bit outside
\* the table flips no flag.
C27_FlipOneBitOneFlag ==
    Applied("parse_status_flags") =>
        LET r == Val(calc.out) IN
        /\ DOMAIN r.flags = FlagNames
        /\ DOMAIN r.flipped = FlagNames
        /\ \A n \in FlagNames :
              (r.flags[n] # r.flipped[n]) <=> (FlagTable[n] = calc.arg.bit)

\* Bit 0x100 of a mask that has it set was cleared: wifi_connection_error went from
\* true to false and no other flag moved.
C27_Witness ==
    /\ Applied("parse_status_flags")
    /\ calc.arg = [mask |-> 403775, bit |-> 256]
    /\ Val(calc.out).flags.wifi_connection_error
    /\ ~Val(calc.out).flipped.wifi_connection_error
    /\ FlagsOn(Val(calc.out).flags) \ FlagsOn(Val(calc.out).flipped)
          = {"wifi_connection_error"}
    /\ FlagsOn(Val(calc.out).flipped) \subseteq FlagsOn(Val(calc.out).flags)

\* C28 as stated: bitmask 0x00000042 decodes to secure_mode and general_error, every
\* other flag false.
C28_Mask42SecureAndGeneralError ==
    (Applied("parse_status_flags") /\ calc.arg.mask = 66) =>
        FlagsOn(Val(calc.out).flags) = {"secure_mode", "general_error"}

\* C28: bitmask 0x00000042 (0x40 + 0x02) decodes to secure_mode and battery_low,
\* every other flag false.
C28_Mask42SecureAndBatteryLow ==
    (Applied("parse_status_flags") /\ calc.arg.mask = 66) =>
        /\ DOMAIN Val(calc.out).flags = FlagNames
        /\ FlagsOn(Val(calc.out).flags) = {"secure_mode", "battery_low"}

\* Bitmask 0x42 was decoded, and so was 0x43 (its bit 0 flipped), the only one of
\* the two with general_error.
C28_Witness ==
    /\ Applied("parse_status_flags")
    /\ calc.arg = [mask |-> 66, bit |-> 1]
    /\ Val(calc.out).flags.secure_mode
    /\ ~Val(calc.out).flags.general_error
    /\ Val(calc.out).flipped.general_error

\* struct.pack("<H", seq & 0xFFFF), from the arithmetic of the sequence number.
LittleEndianU16(seq) == <<seq % 256, (seq \div 256) % 256>>

\* The frame the inputs determine: header byte 0x01, the JSON payload, and the first
\* 4 bytes of the MAC, under the key given or the default key, of
\* littleEndianU16(seq), header, payload.
FrameOf(action, extra, seq, key) ==
    LET payload == [action |-> action,
                    extra  |-> IF extra \in {None, "{}"} THEN "" ELSE extra]
    IN [hp  |-> <<1, payload>>,
        mac |-> [digest4 |-> "hmac-sha256",
                 key     |-> IF key \in {None, ""} THEN BLE_DEFAULT_SKEY_HEX ELSE key,
                 msg     |-> <<LittleEndianU16(seq), <<1, payload>>>>]]

\* C29: the frame build_json_command returns is a function of (action, extra, seq,
\* key) alone and has the shape header 0x01, JSON payload, first 4 bytes of the MAC
\* over littleEndianU16(seq), header, payload; the frames for seq - 1 and seq + 1
\* have the same header and payload and a MAC over a different message.
C29_BuildCommandShape ==
    Applied("build_json_command") =>
        LET a == calc.arg
            r == Val(calc.out)
        IN /\ r.frame = FrameOf(a.action, a.extra, a.msg_seq, a.skey_hex)
           /\ \A c \in BuildCalls :
                 c.arg = a =>
                     build_json_command(c.arg.action, c.arg.extra, c.arg.msg_seq,
                                        c.arg.skey_hex) = r.frame
           /\ \A other \in {r.prev, r.next} :
                 /\ other.hp = r.frame.hp
                 /\ other.mac.key = r.frame.mac.key
                 /\ other.mac.msg # r.frame.mac.msg
                 /\ other.mac.msg[2] = r.frame.mac.msg[2]

\* A FETCH command with sequence number 65535 and a device key was built: its MAC
\* covers FF FF, its neighbour's 00 00 (the sequence number wrapped to 16 bits).
C29_Witness ==
    /\ Applied("build_json_command")
    /\ calc.arg = [action |-> BLE_ACTION_FETCH, extra |-> None, msg_seq |-> 65535,
                   skey_hex |-> "devicekey"]
    /\ Val(calc.out).frame.hp[1] = 1
    /\ Val(calc.out).frame.mac.msg[1] = <<255, 255>>
    /\ Val(calc.out).next.mac.msg[1] = <<0, 0>>
    /\ Val(calc.out).prev.mac.msg[1] = <<254, 255>>

(***************************************************************************)
(* Properties of async_ensure_token's failure paths.                       *)
(***************************************************************************)
\* The auth requests async_ensure_token has sent for task t.
EnsureAuths(t) == PhaseAuths(api[t], "ensure")

\* In this step a request of async_ensure_token is answered with a failure.
EnsureAuthFails(t) ==
    /\ api[t].pc \in {"ens_refresh_persisted", "ens_refresh", "ens_login"}
    /\ Last(api[t].auths).out = "pending"
    /\ api'[t].auths # <<>>
    /\ api'[t].auths[Len(api[t].auths)].out = "err"

FailureHandled ==
    \A t \in Tasks :
        LET ens == EnsureAuths(t)
        IN \A i \in 1..Len(ens) :
              ens[i].out = "err" =>
                  IF ens[i].kind = "refresh"
                  THEN i < Len(ens)
                  ELSE /\ i = Len(ens)
                       /\ api[t].ensRet = "raised"
                       /\ api[t].result = "error"
                       /\ api[t].error = "ClientError"
                       /\ api[t].sent = <<>>

NumKind(q, kind) == Cardinality({i \in 1..Len(q) : q[i].kind = kind})

\* C32 as stated: one async_ensure_token call sends at most one refresh and at most
\* one login, and the login directly follows the one failed refresh (or is the only
\* request): the failed refresh of a freshly loaded persisted token is not followed
\* by a second refresh.
C32_OneRefreshOneLogin ==
    \A t \in Tasks :
        LET ens == PhaseAuths(api[t], "ensure")
        IN /\ NumKind(ens, "refresh") <= 1
           /\ NumKind(ens, "login") <= 1
           /\ \A i \in 1..Len(ens) :
                 (ens[i].kind = "refresh" /\ ens[i].out = "err" /\ i < Len(ens)) =>
                     ens[i + 1].kind = "login"

(***************************************************************************)
(* Properties of a whole send-command operation.                           *)
(***************************************************************************)
\* C33 as stated: when the caller gave a non-empty device key and the status read
\* that precedes the write reports secure mode, the frame is signed with the
\* caller's key, also after a readiness retry whose first read reported
\* secureMode = false.
C33_CallerKeyWhenSecure ==
    \A p \in BleProcs :
        LET b == ble[p] IN
        (/\ b.op = "send" /\ b.action # Nil /\ b.written # Nil
         /\ b.callerKey \notin {None, ""}
         /\ Secure(ReadBeforeWrite(b))) =>
            Val(b.written).mac.key = b.callerKey

\* The steps of a send-command operation that found the device ready at once, and
\* of one that went through the readiness retry.
StepsDirect == <<"connect", "read", "write", "sleep1", "read", "disconnect">>
StepsRetried ==
    <<"connect", "read", "disconnect", "sleep3", "connect", "read",
      "write", "sleep1", "read", "disconnect">>

FromOneSource(tk) ==
    \/ <<tk.access_token, tk.refresh_token, tk.expires_at>> = <<0, 0, 0>>
    \/ \E r \in PersistedRecords :
          <<tk.access_token, tk.refresh_token, tk.expires_at>>
              = <<r.access_token, r.refresh_token, r.expires_at>>
    \/ /\ tk.access_token \in 1..srvSeq
       /\ tk.refresh_token = tk.access_token
       /\ tk.expires_at > 0

\* C35 as stated: in every reachable state, also after an auth response that lacks
\* a field, accessToken, refreshToken and expiresAt come from the same auth response
\* or the same persisted record, or are all initial.
C35_TokenStateNeverTorn == FromOneSource(tok)

\* A cloud request of this setup (login, refresh or status GET) has completed.
RoundTripCompleted == \E i \in 1..Len(cloud.sent) : cloud.sent[i].out # "pending"

\* C36 as stated: on startup with a persisted snapshot, the snapshot is visible (it
\* is the coordinator's data) by the time the first cloud request completes: no
\* login, refresh or status GET has to complete or succeed first.
C36_CacheVisibleBeforeRoundTrip ==
    (cloud.store # Nil /\ RoundTripCompleted) => cloud.data # Nil

(***************************************************************************)
(* Termination of the conversion polling.                                  *)
(***************************************************************************)
\* At most 60 polls have been started, and a poll in flight was started less than
\* 120 seconds after the polling began.
PollsBounded ==
    /\ upl.attempts <= 60
    /\ upl.pc = "poll" => upl.clock - upl.start < 120

\* C37: the polling loop terminates: when every poll request ends, the upload ends
\* after at most 60 polls, and no poll is started once 120 seconds have passed
\* since the polling began.
C37_PollingTerminates ==
    /\ []PollsBounded
    /\ (upl.pc \in {"poll", "sleep"}) ~> (upl.pc = "done")

\* Sixty polls that answered at once were all pending; the upload has returned the
\* last of them, 120 seconds after the polling began.
C37_Witness ==
    /\ upl.pc = "done"
    /\ upl.attempts = 60
    /\ upl.sleeps = 60
    /\ upl.clock - upl.start = 120
    /\ upl.result = Some(upl.last_response)

(***************************************************************************)
(* Properties of the upload-image services.                                *)
(***************************************************************************)
\* The local-link operation of the service is under way or has run.
FetchUnderWay == \E p \in ServiceProcs : ble[p].pc # "idle"

\* C38: in the upload-image services the FETCH command is sent only after
\* async_upload_and_poll has returned, and a FETCH that fails (no connection, device
\* not ready, a read or write error) does not fail the service call: the refresh of
\* the cloud coordinator is still requested and the call returns.
C38_FetchAfterUploadNonFatal ==
    /\ FetchUnderWay =>
          /\ svc.pc = "fetch"
          /\ upl.pc = "idle"
          /\ Last(svc.log) = "upload_returned"
    /\ \A i \in 1..Len(svc.log) :
          svc.log[i] \in {"fetch_sent", "fetch_failed", "fetch_skipped"} =>
              /\ i = 2 /\ svc.log[1] = "upload_returned"
              /\ svc.pc \in {"refresh", "done"}
              /\ svc.pc = "done" =>
                    /\ svc.error = None
                    /\ svc.log = <<"upload_returned", svc.log[2], "refresh_requested">>

\* A service call whose FETCH found the device not ready twice has returned, with
\* the refresh requested.
C38_Witness ==
    /\ svc.pc = "done" /\ svc.error = None
    /\ svc.fetchError = "DeviceNotReady"
    /\ svc.log = <<"upload_returned", "fetch_failed", "refresh_requested">>

=============================================================================
